---- MODULE Spec2Model ----
(***************************************************************************)
(* Model of the route-to-frame sampling pipeline (GoogleMapsService) and   *)
(* of the image cache (ImageCacheService).                                 *)
(*                                                                         *)
(* Units.  A coordinate is a pair of integers counting steps of 1/20000    *)
(* degree, so lat*10000 = lat_units/2 and the quantized location key       *)
(* round(lat*10000) is a real rounding.  One step is 6371000*pi/180/20000  *)
(* = 5.56 m; distances are whole centimetres.                              *)
(***************************************************************************)
EXTENDS Integers, Sequences, FiniteSets, TLC

VARIABLES
    \* ---- GoogleMapsService.generateStreetViewFrames ----
    route,            \* the Route argument: [path, steps]
    intervalMeters,   \* the intervalMeters argument
    gpc,              \* position in generateStreetViewFrames
    points,           \* const points = interpolateRoutePoints(...)
    fi,               \* the loop variable i of the frame loop (1-based here)
    seenLocations,    \* const seenLocations = new Set<string>()
    frames,           \* const frames: StreetViewFrame[]
    \* ---- ImageCacheService ----
    db,               \* this.db: "null" or "open"
    store,            \* the object store 'images': url -> entry or NoEntry
    now,              \* Date.now(), in weeks
    idb,              \* the requests on the object store not yet completed
    fetchCount,       \* fetch(url) calls issued so far, per url
    faults,           \* failed requests so far (network or IndexedDB)
    \* ---- ImageCacheService.cacheImages ----
    urls,             \* the urls argument
    cpc,              \* position in cacheImages
    bi,               \* the loop variable i (start of the current batch)
    tasks,            \* the batch.map(async (url) => ...) calls, per index
    results,          \* const results = new Map<string, string>()
    cached,           \* let cached
    failed,           \* let failed
    progress,         \* the arguments of the onProgress calls, in order
    \* ---- ImageCacheService.clearCache, getCacheStats ----
    mpc,              \* position in clearCache
    spc,              \* position in getCacheStats
    stats,            \* the value getCacheStats resolved with
    \* ---- GoogleMapsService.extractTurnDirection ----
    tpc,              \* position in extractTurnDirection
    tInstruction,     \* the instruction argument
    tDirection,       \* the value returned
    \* ---- GoogleMapsService.isStepATurn ----
    kpc,              \* position in isStepATurn (of the same instruction)
    tIsTurn,          \* the value returned
    \* ---- GoogleMapsService: the fields and the calls made on it ----
    google,           \* typeof google !== 'undefined'
    directionsService, \* this.directionsService: "null" or "set"
    streetViewService, \* this.streetViewService: "null" or "set"
    callLog,          \* the calls made on the service, with their outcomes
    collaboratorCalls, \* calls the service made on the Google services
    \* ---- GoogleMapsService.generateStreetViewFramesWithCache ----
    wpc,              \* position in generateStreetViewFramesWithCache
    updatedFrames,    \* the frames it resolved with
    \* ---- App.handleGenerateVideo and the useGoogleMaps hook ----
    mapsService,      \* the hook's mapsService: "null" or "ready"
    apc,              \* position in handleGenerateVideo
    routeCalls,       \* calls of directionsService.route so far
    routeStatus,      \* the status the provider answered with, if it has
    hookError,        \* the hook's error state
    alerted,          \* the message of the alert shown, if any
    streetViewFrames, \* the App's streetViewFrames state
    hpc,              \* position of the hook's mount effect
    isLoaded,         \* the hook's isLoaded state
    \* ---- StreetViewPlayer ----
    playerFrames,     \* frames.length of the frames prop
    isPlaying,        \* playerState.isPlaying
    currentFrame,     \* playerState.currentFrame
    totalFrames,      \* playerState.totalFrames
    playbackSpeed,    \* playerState.playbackSpeed, in hundredths
    playerProgress    \* playerState.progress, as a fraction in lowest terms

frameVars == <<route, intervalMeters, gpc, points, fi, seenLocations, frames>>
cacheVars == <<db, store, now, idb, fetchCount, faults>>
batchVars == <<urls, cpc, bi, tasks, results, cached, failed, progress>>

maintVars == <<mpc, spc, stats>>

turnVars == <<tpc, tInstruction, tDirection, kpc, tIsTurn>>

serviceVars == <<google, directionsService, streetViewService, callLog, collaboratorCalls>>

pipeVars == <<wpc, updatedFrames>>
appVars == <<mapsService, apc, routeCalls, routeStatus, hookError, alerted, streetViewFrames>>

hookVars == <<hpc, isLoaded>>
playerVars == <<playerFrames, isPlaying, currentFrame, totalFrames, playbackSpeed, playerProgress>>

vars == <<frameVars, cacheVars, batchVars, maintVars, turnVars, serviceVars, pipeVars, appVars,
          hookVars, playerVars>>

\* ------------------------------------------------------------------------
\* Bounds of the model
\* ------------------------------------------------------------------------
MaxPath == 3
MaxSteps == 2
MaxUrls == 6
MaxFaults == 1

\* ------------------------------------------------------------------------
\* Strings: an instruction is a sequence of one-character strings
\* ------------------------------------------------------------------------
UpperChars == <<"A","B","C","D","E","F","G","H","I","J","K","L","M",
                "N","O","P","Q","R","S","T","U","V","W","X","Y","Z">>
LowerChars == <<"a","b","c","d","e","f","g","h","i","j","k","l","m",
                "n","o","p","q","r","s","t","u","v","w","x","y","z">>

LowerOf ==
    [c \in {UpperChars[k] : k \in 1..Len(UpperChars)} |->
        LowerChars[CHOOSE k \in 1..Len(UpperChars) : UpperChars[k] = c]]

toLowerCase(s) ==
    [j \in 1..Len(s) |-> IF s[j] \in DOMAIN LowerOf THEN LowerOf[s[j]] ELSE s[j]]

\* String.prototype.includes: k occurs in s as a contiguous substring
includes(s, k) ==
    \E j \in 1..(Len(s) - Len(k) + 1) : SubSeq(s, j, j + Len(k) - 1) = k

\* const turnKeywords = ['turn', 'left', 'right', 'exit', 'ramp', 'merge', 'fork']
turnKeywords ==
    { <<"t","u","r","n">>, <<"l","e","f","t">>, <<"r","i","g","h","t">>,
      <<"e","x","i","t">>, <<"r","a","m","p">>, <<"m","e","r","g","e">>,
      <<"f","o","r","k">> }

isStepATurnWithoutSides(instruction) ==
    LET lowerInstruction == toLowerCase(instruction)
    IN  \E keyword \in turnKeywords \ {<<"l","e","f","t">>, <<"r","i","g","h","t">>} :
            includes(lowerInstruction, keyword)

isStepATurnCaseSensitive(instruction) ==
    \E keyword \in turnKeywords : includes(instruction, keyword)

isStepATurn(instruction) ==
    LET lowerInstruction == toLowerCase(instruction)
    IN  \E keyword \in turnKeywords : includes(lowerInstruction, keyword)

extractTurnDirectionBareFirst(instruction) ==
    LET l == toLowerCase(instruction)
    IN  IF includes(l, <<"u","-","t","u","r","n">>)
           \/ includes(l, <<"m","a","k","e"," ","a"," ","u","-","t","u","r","n">>)
        THEN "uturn"
        ELSE IF includes(l, <<"l","e","f","t">>) THEN "left"
        ELSE IF includes(l, <<"r","i","g","h","t">>) THEN "right"
        ELSE IF includes(l, <<"c","o","n","t","i","n","u","e">>)
                \/ includes(l, <<"s","t","r","a","i","g","h","t">>)
        THEN "straight"
        ELSE "straight"

extractTurnDirection(instruction) ==
    LET l == toLowerCase(instruction)
    IN  IF includes(l, <<"u","-","t","u","r","n">>)
           \/ includes(l, <<"m","a","k","e"," ","a"," ","u","-","t","u","r","n">>)
        THEN "uturn"
        ELSE IF includes(l, <<"t","u","r","n"," ","l","e","f","t">>)
                \/ includes(l, <<"l","e","f","t"," ","o","n","t","o">>)
        THEN "left"
        ELSE IF includes(l, <<"t","u","r","n"," ","r","i","g","h","t">>)
                \/ includes(l, <<"r","i","g","h","t"," ","o","n","t","o">>)
        THEN "right"
        ELSE IF includes(l, <<"c","o","n","t","i","n","u","e">>)
                \/ includes(l, <<"s","t","r","a","i","g","h","t">>)
        THEN "straight"
        ELSE IF includes(l, <<"l","e","f","t">>) THEN "left"
        ELSE IF includes(l, <<"r","i","g","h","t">>) THEN "right"
        ELSE "straight"

\* "Turn left onto Main St"
InstrTurnLeft ==
    <<"T","u","r","n"," ","l","e","f","t"," ","o","n","t","o"," ",
      "M","a","i","n"," ","S","t">>
\* "Head north on 5th"
InstrHeadNorth ==
    <<"H","e","a","d"," ","n","o","r","t","h"," ","o","n"," ","5","t","h">>

\* "Turn right onto Elm Ave"
InstrTurnRight ==
    <<"T","u","r","n"," ","r","i","g","h","t"," ","o","n","t","o"," ",
      "E","l","m"," ","A","v","e">>

Instructions == {InstrTurnLeft, InstrHeadNorth, InstrTurnRight}

\* The classifiers are pure: their values on the instructions of the model,
\* computed once.
StepIsATurn == [instruction \in Instructions |-> isStepATurn(instruction)]
TurnDirectionOf == [instruction \in Instructions |-> extractTurnDirection(instruction)]

\* ------------------------------------------------------------------------
\* Geodesy
\* ------------------------------------------------------------------------
Loc(a, b) == [lat |-> a, lng |-> b]

\* The origin, two points 5.56 m apart that share a quantized key, one
\* 27.8 m and one 33.4 m from the origin (inside and outside the turn
\* radius), and a point 556 m away.
Coords == {Loc(0, 0), Loc(5, 0), Loc(6, 0), Loc(100, 1)}
StepLocations == {Loc(0, 0), Loc(100, 1)}

RECURSIVE ISqrtBetween(_, _, _)
ISqrtBetween(n, lo, hi) ==
    IF lo >= hi THEN lo
    ELSE LET mid == (lo + hi + 1) \div 2
         IN  IF mid * mid <= n THEN ISqrtBetween(n, mid, hi)
             ELSE ISqrtBetween(n, lo, mid - 1)

Abs(n) == IF n < 0 THEN 0 - n ELSE n

\* Haversine distance with R = 6371000 m, in whole centimetres.  At the
\* scale of the model (under 1 km, at the equator) the great circle is the
\* straight line, 556 cm per coordinate step; the root is taken to 1/100
\* step and lies between the longer leg and the sum of the legs.
calculateDistance(point1, point2) ==
    LET dLat == Abs(point2.lat - point1.lat)
        dLng == Abs(point2.lng - point1.lng)
        longer == IF dLat >= dLng THEN dLat ELSE dLng
        root == ISqrtBetween(10000 * (dLat * dLat + dLng * dLng),
                             100 * longer, 100 * (dLat + dLng))
    IN  (556 * root) \div 100

\* The distance is pure: its values on the coordinates of the model,
\* computed once.
DistanceCm == [p \in Coords, q \in Coords |-> calculateDistance(p, q)]

calculateHeadingSigned(from, to) ==
    LET y == to.lng - from.lng
        x == to.lat - from.lat
        ay == Abs(y)
        ax == Abs(x)
        acute == IF ax = 0 /\ ay = 0 THEN 0
                 ELSE IF ay <= ax THEN (45 * ay) \div ax
                 ELSE 90 - ((45 * ax) \div ay)
    IN  IF x >= 0 /\ y >= 0 THEN acute
        ELSE IF x < 0 /\ y >= 0 THEN 180 - acute
        ELSE IF x < 0 /\ y < 0 THEN acute - 180
        ELSE 0 - acute

\* Forward azimuth in whole degrees, (atan2(y, x) * 180 / PI + 360) % 360,
\* with atan2 exact on the multiples of 45 degrees and linear in between;
\* atan2(0, 0) = 0.
calculateHeading(from, to) ==
    LET y == to.lng - from.lng
        x == to.lat - from.lat
        ay == Abs(y)
        ax == Abs(x)
        acute == IF ax = 0 /\ ay = 0 THEN 0
                 ELSE IF ay <= ax THEN (45 * ay) \div ax
                 ELSE 90 - ((45 * ax) \div ay)
        atan2 == IF x >= 0 /\ y >= 0 THEN acute
                 ELSE IF x < 0 /\ y >= 0 THEN 180 - acute
                 ELSE IF x < 0 /\ y < 0 THEN acute - 180
                 ELSE 0 - acute
    IN  (atan2 + 360) % 360

\* ------------------------------------------------------------------------
\* Route sampler
\* ------------------------------------------------------------------------
turnRadius == 30
turnDensity == 100

Cm(meters) == meters * 100

isNearTurnInstruction(point, steps) ==
    \E k \in 1..Len(steps) :
        /\ StepIsATurn[steps[k].instruction]
        /\ DistanceCm[point, steps[k].location] <= Cm(turnRadius)

currentIntervalBase(rt, interval, i) ==
    IF isNearTurnInstruction(rt.path[i], rt.steps)
    THEN Cm(interval) \div turnDensity
    ELSE Cm(interval)

currentIntervalDense(rt, interval, i) == Cm(interval) \div turnDensity

\* const currentInterval = nearTurn ? intervalMeters / turnDensity : straightInterval
currentInterval(rt, interval, i) ==
    IF isNearTurnInstruction(rt.path[i], rt.steps)
    THEN Cm(interval) \div turnDensity
    ELSE Cm(interval * 5)

\* The state of the walk: the samples, the path index each sample came from
\* (0 for the point appended after the walk) and the accumulator.
WalkInit(rt) ==
    [points |-> <<rt.path[1]>>, index |-> <<1>>, accumulatedDistance |-> 0]

WalkBodyUnshifting(w, rt, interval, i) ==
    LET acc == w.accumulatedDistance + DistanceCm[rt.path[i - 1], rt.path[i]]
    IN  IF acc >= currentInterval(rt, interval, i)
        THEN [points |-> <<rt.path[i]>> \o w.points,
              index |-> <<i>> \o w.index,
              accumulatedDistance |-> 0]
        ELSE [w EXCEPT !.accumulatedDistance = acc]

WalkBodyNoReset(w, rt, interval, i) ==
    LET acc == w.accumulatedDistance + DistanceCm[rt.path[i - 1], rt.path[i]]
    IN  IF acc >= currentInterval(rt, interval, i)
        THEN [points |-> Append(w.points, rt.path[i]),
              index |-> Append(w.index, i),
              accumulatedDistance |-> acc]
        ELSE [w EXCEPT !.accumulatedDistance = acc]

\* One iteration of for (let i = 1; i < route.encodedPath.length; i++);
\* i is the 1-based index of currentPoint.
WalkBody(w, rt, interval, i) ==
    LET acc == w.accumulatedDistance + DistanceCm[rt.path[i - 1], rt.path[i]]
    IN  IF acc >= currentInterval(rt, interval, i)
        THEN [points |-> Append(w.points, rt.path[i]),
              index |-> Append(w.index, i),
              accumulatedDistance |-> 0]
        ELSE [w EXCEPT !.accumulatedDistance = acc]

\* The walk after the iterations for path points 2..i
RECURSIVE Walk(_, _, _)
Walk(rt, interval, i) ==
    IF i <= 1 THEN WalkInit(rt)
    ELSE WalkBody(Walk(rt, interval, i - 1), rt, interval, i)

\* if (points[points.length - 1] !== lastPoint) compares a Location object
\* created on the line before with one created earlier: two distinct
\* objects, so the test is always true and the last point is always pushed.
interpolateRoutePointsNoLast(rt, interval) ==
    IF Len(rt.path) > 0
    THEN Walk(rt, interval, Len(rt.path)).points
    ELSE <<>>

interpolateRoutePointsNeedingSteps(rt, interval) ==
    IF Len(rt.path) > 0 /\ Len(rt.steps) > 0
    THEN Append(Walk(rt, interval, Len(rt.path)).points, rt.path[Len(rt.path)])
    ELSE <<>>

interpolateRoutePointsStepFallback(rt, interval) ==
    IF Len(rt.path) > 0
    THEN Append(Walk(rt, interval, Len(rt.path)).points, rt.path[Len(rt.path)])
    ELSE [k \in 1..Len(rt.steps) |-> rt.steps[k].location]

interpolateRoutePoints(rt, interval) ==
    IF Len(rt.path) > 0
    THEN Append(Walk(rt, interval, Len(rt.path)).points, rt.path[Len(rt.path)])
    ELSE <<>>

\* ------------------------------------------------------------------------
\* Frame builder
\* ------------------------------------------------------------------------
Undefined == "undefined"

\* `${Math.round(point.lat * 10000)},${Math.round(point.lng * 10000)}`;
\* Math.round rounds halves up.
locationKeyExact(point) == <<point.lat, point.lng>>

locationKey(point) == <<(point.lat + 1) \div 2, (point.lng + 1) \div 2>>

\* The URL is the text of location and heading between fixed parts.
getStreetViewImage(location, heading) ==
    [lat |-> location.lat, lng |-> location.lng, heading |-> heading]

getTurnInformationOfAnyStep(point, steps) ==
    LET near == {k \in 1..Len(steps) :
                    DistanceCm[point, steps[k].location] <= Cm(turnRadius)}
    IN  IF near # {}
        THEN LET k == CHOOSE k \in near : \A m \in near : k <= m
             IN  [isNearTurn |-> TRUE,
                  direction |-> TurnDirectionOf[steps[k].instruction],
                  instruction |-> steps[k].instruction]
        ELSE [isNearTurn |-> FALSE, direction |-> Undefined, instruction |-> Undefined]

getTurnInformation(point, steps) ==
    LET near == {k \in 1..Len(steps) :
                    /\ StepIsATurn[steps[k].instruction]
                    /\ DistanceCm[point, steps[k].location] <= Cm(turnRadius)}
    IN  IF near # {}
        THEN LET k == CHOOSE k \in near : \A m \in near : k <= m
             IN  [isNearTurn |-> TRUE,
                  direction |-> TurnDirectionOf[steps[k].instruction],
                  instruction |-> steps[k].instruction]
        ELSE [isNearTurn |-> FALSE, direction |-> Undefined, instruction |-> Undefined]

\* ------------------------------------------------------------------------
\* Image cache (ImageCacheService)
\* ------------------------------------------------------------------------
\* private maxCacheSize = 500 * 1024 * 1024, counted in MB
maxCacheSize == 500
\* private maxAge = 7 * 24 * 60 * 60 * 1000, counted in half weeks
maxAge == 2
\* const batchSize = 5
batchSize == 5

\* The clock of the model runs from maxAge to the first instant at which an
\* entry stored at 0 has expired.
MaxTime == maxAge + 1

\* The urls that the model requests, and the keys of the store in key order
\* (getAll returns the entries by key): the requested urls and the url of an
\* image that an earlier session stored.  BlobSize is the size in MB of the
\* image behind each.
UrlOrder == <<"u1", "u2", "u3", "u4", "u5">>
KeyOrder == <<"u0">> \o UrlOrder
AllUrls == {KeyOrder[n] : n \in 1..Len(KeyOrder)}
UrlIndex(u) == CHOOSE n \in 1..Len(KeyOrder) : KeyOrder[n] = u
BlobSize == [u \in AllUrls |->
                CASE u = "u0" -> 200 [] u = "u1" -> 100 [] u = "u2" -> 50
                  [] u = "u3" -> 100 [] u = "u4" -> 100 [] OTHER -> 150]

NoEntry == [timestamp |-> -1, size |-> 0]
EmptyStore == [u \in AllUrls |-> NoEntry]
StoredUrls(st) == {u \in AllUrls : st[u] # NoEntry}

RECURSIVE SumSizes(_, _)
SumSizes(st, S) ==
    IF S = {} THEN 0
    ELSE LET u == CHOOSE u \in S : TRUE
         IN  st[u].size + SumSizes(st, S \ {u})

TotalSizeCountingEntries(st) == Cardinality(StoredUrls(st))

\* entries.reduce((sum, entry) => sum + entry.size, 0)
TotalSize(st) == SumSizes(st, StoredUrls(st))

EntryOf(st, u) == [url |-> u, timestamp |-> st[u].timestamp, size |-> st[u].size]

\* getAllEntries() followed by entries.sort((a, b) => a.timestamp - b.timestamp):
\* by timestamp, entries of one timestamp staying in key order.
RECURSIVE SortedFrom(_, _)
SortedFrom(st, S) ==
    IF S = {} THEN <<>>
    ELSE LET u == CHOOSE u \in S : \A v \in S :
                     \/ st[u].timestamp < st[v].timestamp
                     \/ /\ st[u].timestamp = st[v].timestamp
                        /\ UrlIndex(u) <= UrlIndex(v)
         IN  <<EntryOf(st, u)>> \o SortedFrom(st, S \ {u})

SortedEntries(st) == SortedFrom(st, StoredUrls(st))

IsExpiredAtMaxAge(entry, at) == at - entry.timestamp >= maxAge

\* Date.now() - result.timestamp > this.maxAge
IsExpired(entry, at) == at - entry.timestamp > maxAge

PutDropped(st, u, entry) == st

\* store.put(entry): the entry replaces the one stored under its url
Put(st, u, entry) == [st EXCEPT ![u] = entry]

UnderBufferAtBudget(currentSize) == currentSize <= maxCacheSize

\* currentSize <= this.maxCacheSize * 0.8
UnderBuffer(currentSize) == currentSize * 10 <= maxCacheSize * 8

\* URL.createObjectURL(blob)
BlobUrl(u) == <<"blob", u>>

PercentageOfCached(c, f, total) == [num |-> c * 100, den |-> total]

\* ((cached + failed) / urls.length) * 100, as a fraction
Percentage(c, f, total) == [num |-> (c + f) * 100, den |-> total]

IdleTask ==
    [pc |-> "idle", entry |-> NoEntry, queue |-> <<>>, currentSize |-> 0,
     evicted |-> <<>>, dirty |-> FALSE, cleanupFailed |-> FALSE, outcome |-> "none"]

DoneTask(outcome) == [IdleTask EXCEPT !.pc = "done", !.outcome = outcome]

\* cacheImage(url) up to its first await: initialize() when this.db is not
\* set, else the get request of getCachedImage.
StartedTask == [IdleTask EXCEPT !.pc = IF db = "null" THEN "opening" ELSE "getting"]

BatchOf(i) == {k \in 1..Len(urls) : i < k /\ k <= i + batchSize}

\* The get requests of the calls lo..hi, in the order of the calls
RECURSIVE GetRequests(_, _)
GetRequests(lo, hi) ==
    IF lo > hi THEN <<>>
    ELSE <<[kind |-> "get", k |-> lo, url |-> urls[lo]]>> \o GetRequests(lo + 1, hi)

StartBatch(i) ==
    /\ tasks' = [k \in DOMAIN tasks |-> IF k \in BatchOf(i) THEN StartedTask ELSE tasks[k]]
    /\ idb' = IF db = "null" THEN idb
              ELSE idb \o GetRequests(i + 1, IF i + batchSize < Len(urls)
                                             THEN i + batchSize ELSE Len(urls))

InFlight == {k \in 1..Len(urls) : tasks[k].pc \notin {"idle", "done"}}

AnySettled(i) == \E k \in BatchOf(i) : tasks[k].pc = "done"

\* await Promise.all(batchPromises)
AllSettled(i) == \A k \in BatchOf(i) : tasks[k].pc = "done"

SettleRecordingEveryUrl(k, outcome) ==
    LET ok == outcome \in {"hit", "stored"}
        c == IF ok THEN cached + 1 ELSE cached
        f == IF ok THEN failed ELSE failed + 1
    IN  /\ cached' = c
        /\ failed' = f
        /\ results' = results \cup {<<urls[k], BlobUrl(urls[k])>>}
        /\ progress' = Append(progress,
              [total |-> Len(urls), cached |-> c, failed |-> f,
               percentage |-> Percentage(c, f, Len(urls))])

SettleCountingReturnsOnly(k, outcome) ==
    LET ok == outcome \in {"hit", "stored"}
        c == IF ok THEN cached + 1 ELSE cached
        f == IF outcome = "null" THEN failed + 1 ELSE failed
    IN  /\ cached' = c
        /\ failed' = f
        /\ results' = IF ok THEN results \cup {<<urls[k], BlobUrl(urls[k])>>} ELSE results
        /\ progress' = Append(progress,
              [total |-> Len(urls), cached |-> c, failed |-> f,
               percentage |-> Percentage(c, f, Len(urls))])

\* The rest of the async callback of cacheImages once cacheImage(url) has
\* settled: the counters, the result map and updateProgress().
Settle(k, outcome) ==
    LET ok == outcome \in {"hit", "stored"}
        c == IF ok THEN cached + 1 ELSE cached
        f == IF ok THEN failed ELSE failed + 1
    IN  /\ cached' = c
        /\ failed' = f
        /\ results' = IF ok THEN results \cup {<<urls[k], BlobUrl(urls[k])>>} ELSE results
        /\ progress' = Append(progress,
              [total |-> Len(urls), cached |-> c, failed |-> f,
               percentage |-> Percentage(c, f, Len(urls))])

NoSettle == UNCHANGED <<results, cached, failed, progress>>

\* A request on the object store: a transaction of one request.  k is the
\* cacheImage call that awaits it (0 for the delete that getCachedImage
\* issues without awaiting it).
Request(kind, k, u) == [kind |-> kind, k |-> k, url |-> u]

\* IndexedDB starts a transaction when no earlier transaction on the store
\* that it must wait for is live: readonly transactions ('get', 'getAll')
\* run side by side, a readwrite one ('put', 'delete') runs alone and in
\* the order of creation.
ReadOnly(r) == r.kind \in {"get", "getAll"}

Ready(n) ==
    /\ n \in 1..Len(idb)
    /\ n = 1 \/ \A m \in 1..n : ReadOnly(idb[m])

Without(n) == SubSeq(idb, 1, n - 1) \o SubSeq(idb, n + 1, Len(idb))

\* initialize(): the open request succeeds or fails.  The open requests on
\* one database are served in the order they were made.
OpenDone(k) ==
    /\ cpc = "batch" /\ tasks[k].pc = "opening"
    /\ \A j \in 1..(k - 1) : tasks[j].pc # "opening"
    /\ \/ /\ db' = "open"
          /\ tasks' = [tasks EXCEPT ![k].pc = "getting"]
          /\ idb' = Append(idb, Request("get", k, urls[k]))
          /\ NoSettle
          /\ UNCHANGED faults
       \/ /\ faults < MaxFaults
          /\ faults' = faults + 1
          /\ tasks' = [tasks EXCEPT ![k] = DoneTask("threw")]
          /\ Settle(k, "threw")
          /\ UNCHANGED <<db, idb>>
    /\ UNCHANGED <<store, now, fetchCount, urls, cpc, bi>>

\* The get request of getCachedImage completes: with an error or without
\* an entry it resolves null, for an expired entry it issues the delete and
\* resolves null, else it resolves the blob url.  On null cacheImage goes
\* on to fetch(url).
GetDone(k) ==
    \E n \in 1..Len(idb) :
        /\ Ready(n) /\ idb[n] = Request("get", k, urls[k])
        /\ LET u == urls[k]
               Miss == /\ fetchCount' = [fetchCount EXCEPT ![u] = @ + 1]
                       /\ tasks' = [tasks EXCEPT ![k].pc = "fetching"]
                       /\ NoSettle
           IN  \/ /\ faults < MaxFaults
                  /\ faults' = faults + 1
                  /\ Miss
                  /\ idb' = Without(n)
               \/ /\ UNCHANGED faults
                  /\ IF store[u] = NoEntry
                     THEN Miss /\ idb' = Without(n)
                     ELSE IF IsExpired(store[u], now)
                     THEN Miss /\ idb' = Append(Without(n), Request("delete", 0, u))
                     ELSE /\ tasks' = [tasks EXCEPT ![k] = DoneTask("hit")]
                          /\ Settle(k, "hit")
                          /\ idb' = Without(n)
                          /\ UNCHANGED fetchCount
        /\ UNCHANGED <<db, store, now, urls, cpc, bi>>

ResponseOkAlways(response) == TRUE

\* response.ok
ResponseOk(response) == response = "ok"

\* fetch(url) settles: it rejects, or resolves with a response.  With a
\* response that is ok, response.blob() completes and storeEntry issues the
\* put; otherwise cacheImage throws into its catch and returns null.
FetchDone(k) ==
    /\ cpc = "batch" /\ tasks[k].pc = "fetching"
    /\ \E response \in {"ok", "notOk", "rejected"} :
          /\ \/ response = "ok" /\ UNCHANGED faults
             \/ /\ response # "ok"
                /\ faults < MaxFaults
                /\ faults' = faults + 1
          /\ IF response # "rejected" /\ ResponseOk(response)
             THEN /\ tasks' = [tasks EXCEPT ![k].pc = "storing",
                                            ![k].entry = [timestamp |-> now,
                                                          size |-> BlobSize[urls[k]]]]
                  /\ idb' = Append(idb, Request("put", k, urls[k]))
                  /\ NoSettle
             ELSE /\ tasks' = [tasks EXCEPT ![k] = DoneTask("null")]
                  /\ Settle(k, "null")
                  /\ UNCHANGED idb
    /\ UNCHANGED <<db, store, now, fetchCount, urls, cpc, bi>>

\* The put request of storeEntry completes; cleanupCache then asks for all
\* entries.  A put that lands while another call is evicting from its
\* snapshot is recorded in that call's dirty flag.
PutDone(k) ==
    \E n \in 1..Len(idb) :
        /\ Ready(n) /\ idb[n] = Request("put", k, urls[k])
        /\ \/ /\ store' = Put(store, urls[k], tasks[k].entry)
              /\ tasks' = [j \in DOMAIN tasks |->
                    IF j = k THEN [tasks[k] EXCEPT !.pc = "cleanupRead"]
                    ELSE IF tasks[j].pc = "cleanupDel"
                    THEN [tasks[j] EXCEPT !.dirty = TRUE]
                    ELSE tasks[j]]
              /\ idb' = Append(Without(n), Request("getAll", k, urls[k]))
              /\ NoSettle
              /\ UNCHANGED faults
           \/ /\ faults < MaxFaults
              /\ faults' = faults + 1
              /\ tasks' = [tasks EXCEPT ![k] =
                    [DoneTask("null") EXCEPT !.entry = tasks[k].entry]]
              /\ Settle(k, "null")
              /\ idb' = Without(n)
              /\ UNCHANGED store
        /\ UNCHANGED <<db, now, fetchCount, urls, cpc, bi>>

\* getAllEntries completes in cleanupCache: under the budget cacheImage
\* returns, over it the entries are sorted and the first delete is issued.
\* When the request fails cleanupCache catches the error and cacheImage
\* returns.
CleanupRead(k) ==
    \E n \in 1..Len(idb) :
        /\ Ready(n) /\ idb[n] = Request("getAll", k, urls[k])
        /\ \/ /\ UNCHANGED faults
              /\ IF TotalSize(store) > maxCacheSize
                 THEN /\ tasks' = [tasks EXCEPT ![k].pc = "cleanupDel",
                                                ![k].queue = SortedEntries(store),
                                                ![k].currentSize = TotalSize(store)]
                      /\ idb' = Append(Without(n), Request("delete", k, urls[k]))
                      /\ NoSettle
                 ELSE /\ tasks' = [tasks EXCEPT ![k] = DoneTask("stored")]
                      /\ Settle(k, "stored")
                      /\ idb' = Without(n)
           \/ /\ faults < MaxFaults
              /\ faults' = faults + 1
              /\ tasks' = [tasks EXCEPT ![k] =
                    [DoneTask("stored") EXCEPT !.cleanupFailed = TRUE]]
              /\ Settle(k, "stored")
              /\ idb' = Without(n)
        /\ UNCHANGED <<db, store, now, fetchCount, urls, cpc, bi>>

\* A delete request of cleanupCache completes, with success or with an
\* error that deleteEntry swallows, and currentSize -= entry.size; the loop
\* goes on to the next entry, or ends (the buffer is reached or no entry is
\* left) and cacheImage returns.
CleanupDelete(k) ==
    \E n \in 1..Len(idb) :
        /\ Ready(n) /\ k # 0 /\ idb[n] = Request("delete", k, urls[k])
        /\ LET entry == Head(tasks[k].queue)
               rest == Tail(tasks[k].queue)
               currentSize == tasks[k].currentSize - entry.size
           IN  /\ \/ /\ store' = [store EXCEPT ![entry.url] = NoEntry]
                     /\ UNCHANGED faults
                  \/ /\ faults < MaxFaults
                     /\ faults' = faults + 1
                     /\ UNCHANGED store
               /\ IF rest = <<>> \/ UnderBuffer(currentSize)
                  THEN /\ tasks' = [tasks EXCEPT ![k] =
                            [DoneTask("stored") EXCEPT
                                !.evicted = Append(tasks[k].evicted, entry),
                                !.dirty = tasks[k].dirty \/ faults' # faults,
                                !.cleanupFailed =
                                    tasks[k].cleanupFailed \/ faults' # faults]]
                       /\ Settle(k, "stored")
                       /\ idb' = Without(n)
                  ELSE /\ tasks' = [tasks EXCEPT ![k].queue = rest,
                                                 ![k].currentSize = currentSize,
                                                 ![k].evicted = Append(@, entry),
                                                 ![k].dirty = @ \/ faults' # faults,
                                                 ![k].cleanupFailed = @ \/ faults' # faults]
                       /\ idb' = Append(Without(n), Request("delete", k, urls[k]))
                       /\ NoSettle
        /\ UNCHANGED <<db, now, fetchCount, urls, cpc, bi>>

\* The delete that getCachedImage issued for an expired entry completes,
\* with success or with an error that deleteEntry swallows.
ExpiryDelete(u) ==
    \E n \in 1..Len(idb) :
        /\ Ready(n) /\ idb[n] = Request("delete", 0, u)
        /\ idb' = Without(n)
        /\ \/ /\ store' = [store EXCEPT ![u] = NoEntry]
              /\ UNCHANGED faults
           \/ /\ faults < MaxFaults
              /\ faults' = faults + 1
              /\ UNCHANGED store
        /\ UNCHANGED <<db, now, fetchCount, batchVars>>

\* Time passes.
Tick ==
    /\ cpc \in {"batch", "delay"}
    /\ now < MaxTime
    /\ now' = now + 1
    /\ UNCHANGED <<db, store, idb, fetchCount, faults, batchVars>>

\* cacheImages(urls, onProgress) up to its first await: the first batch is
\* started; with no url the loop is not entered.
CacheImagesCall ==
    /\ cpc = "call"
    /\ IF Len(urls) = 0
       THEN cpc' = "returned" /\ UNCHANGED <<tasks, idb>>
       ELSE cpc' = "batch" /\ StartBatch(0)
    /\ UNCHANGED <<db, store, now, fetchCount, faults>>
    /\ UNCHANGED <<urls, bi, results, cached, failed, progress>>

\* await Promise.all(batchPromises) resumes: the 10 ms timer is set when
\* urls remain, otherwise results is returned.
BatchAwaited ==
    /\ cpc = "batch"
    /\ AllSettled(bi)
    /\ cpc' = IF bi + batchSize < Len(urls) THEN "delay" ELSE "returned"
    /\ UNCHANGED <<cacheVars, urls, bi, tasks, results, cached, failed, progress>>

\* The timer fires: i += batchSize and the next batch is started.
TimerFired ==
    /\ cpc = "delay"
    /\ bi' = bi + batchSize
    /\ cpc' = "batch"
    /\ StartBatch(bi + batchSize)
    /\ UNCHANGED <<db, store, now, fetchCount, faults>>
    /\ UNCHANGED <<urls, results, cached, failed, progress>>

Paths == UNION {[1..n -> Coords] : n \in 0..MaxPath}
\* The steps of the model: either instruction at either step location, and
\* a right turn 33.4 m past the origin, within the turn radius of the point
\* 27.8 m from the origin.
RouteSteps ==
    [location : StepLocations, instruction : {InstrTurnLeft, InstrHeadNorth}]
        \cup {[location |-> Loc(6, 0), instruction |-> InstrTurnRight]}
StepLists == UNION {[1..n -> RouteSteps] : n \in 0..MaxSteps}
Intervals == {100, 1000}

CacheIdle ==
    /\ db = "null"
    /\ store = EmptyStore
    /\ now = 0
    /\ idb = <<>>
    /\ fetchCount = [u \in AllUrls |-> 0]
    /\ faults = 0

BatchIdle ==
    /\ urls = <<>>
    /\ cpc = "idle"
    /\ bi = 0
    /\ tasks = <<>>
    /\ results = {}
    /\ cached = 0
    /\ failed = 0
    /\ progress = <<>>

FramesIdle ==
    /\ route = [path |-> <<>>, steps |-> <<>>]
    /\ intervalMeters = 100
    /\ gpc = "idle"
    /\ points = <<>>
    /\ fi = 0
    /\ seenLocations = {}
    /\ frames = <<>>

NoStats == [count |-> -1, totalSize |-> -1]

MaintIdle ==
    /\ mpc = "idle"
    /\ spc = "idle"
    /\ stats = NoStats

TurnIdle ==
    /\ tpc = "idle"
    /\ tInstruction = <<>>
    /\ tDirection = "none"
    /\ kpc = "idle"
    /\ tIsTurn = "none"

\* The hook's error: a message and, from getRoute, the provider's status
HookError(message, status) == <<message, status>>
NoHookError == HookError("none", "none")

\* A fraction n/d in lowest terms (d > 0)
RECURSIVE GCD(_, _)
GCD(a, b) == IF b = 0 THEN a ELSE GCD(b, a % b)
Ratio(n, d) == LET g == GCD(n, d) IN <<n \div g, d \div g>>

\* The hook after a successful mount effect
HookIdle ==
    /\ hpc = "mounted"
    /\ isLoaded = TRUE

\* useState<VideoPlayerState>({isPlaying: false, currentFrame: 0,
\* totalFrames: frames.length, playbackSpeed: 1, progress: 0}) of a player
\* without frames
PlayerIdle ==
    /\ playerFrames = 0
    /\ isPlaying = FALSE
    /\ currentFrame = 0
    /\ totalFrames = 0
    /\ playbackSpeed = 100
    /\ playerProgress = Ratio(0, 1)

PipelineIdle ==
    /\ wpc = "idle"
    /\ updatedFrames = <<>>
    /\ mapsService = "ready"
    /\ apc = "idle"
    /\ routeCalls = 0
    /\ routeStatus = "none"
    /\ hookError = NoHookError
    /\ alerted = "none"
    /\ streetViewFrames = <<>>

\* The service after a successful initialize(), with no call logged
ServiceReady ==
    /\ google = TRUE
    /\ directionsService = "set"
    /\ streetViewService = "set"
    /\ callLog = <<>>
    /\ collaboratorCalls = 0

FramesInit ==
    /\ ServiceReady
    /\ PipelineIdle
    /\ HookIdle
    /\ PlayerIdle
    /\ CacheIdle
    /\ BatchIdle
    /\ MaintIdle
    /\ TurnIdle
    /\ route \in [path : Paths, steps : StepLists]
    /\ intervalMeters \in Intervals
    /\ gpc = "call"
    /\ points = <<>>
    /\ fi = 0
    /\ seenLocations = {}
    /\ frames = <<>>

\* generateStreetViewFrames up to the first await: the points are sampled
\* and the loop is entered.
GenerateStart ==
    /\ gpc = "call"
    /\ points' = interpolateRoutePoints(route, intervalMeters)
    /\ fi' = 1
    /\ gpc' = "loop"
    /\ UNCHANGED <<route, intervalMeters, seenLocations, frames, cacheVars, batchVars, maintVars, turnVars, serviceVars, pipeVars, appVars, hookVars, playerVars>>

FrameTimestampPosition(i) == Len(frames)

FrameTimestamp(i) == i - 1

FramePushFront(fs, frame) == <<frame>> \o fs

\* frames.push({...})
FramePush(fs, frame) == Append(fs, frame)

\* One iteration of the frame loop, resumed after await getStreetViewImage.
FrameStep ==
    /\ gpc = "loop"
    /\ fi <= Len(points)
    /\ LET point == points[fi]
           heading == IF fi + 1 <= Len(points)
                      THEN calculateHeading(point, points[fi + 1])
                      ELSE 0
           imageUrl == getStreetViewImage(point, heading)
           key == locationKey(point)
           turnInfo == getTurnInformation(point, route.steps)
       IN  IF key \in seenLocations
           THEN UNCHANGED <<seenLocations, frames>>
           ELSE /\ seenLocations' = seenLocations \cup {key}
                /\ frames' = FramePush(frames,
                      [location |-> point,
                       heading |-> heading,
                       pitch |-> 0,
                       imageUrl |-> imageUrl,
                       timestamp |-> FrameTimestamp(fi),
                       isNearTurn |-> turnInfo.isNearTurn,
                       turnDirection |-> turnInfo.direction,
                       turnInstruction |-> turnInfo.instruction])
    /\ fi' = fi + 1
    /\ UNCHANGED <<route, intervalMeters, gpc, points, cacheVars, batchVars, maintVars, turnVars, serviceVars, pipeVars, appVars, hookVars, playerVars>>

\* return frames
GenerateReturn ==
    /\ gpc = "loop"
    /\ fi > Len(points)
    /\ gpc' = "returned"
    /\ UNCHANGED <<route, intervalMeters, points, fi, seenLocations, frames, cacheVars, batchVars, maintVars, turnVars, serviceVars, pipeVars, appVars, hookVars, playerVars>>

FramesNext == GenerateStart \/ FrameStep \/ GenerateReturn

SpecFrames == FramesInit /\ [][FramesNext]_vars

\* Routes for the density of the samples: every path, without steps, with a
\* step that is no maneuver or with a left turn at the origin; base
\* intervals of 20 m and 100 m, so that the segments of the model are both
\* shorter and longer than the straight interval of 100 m and 500 m.
DensitySteps ==
    {<<>>,
     <<[location |-> Loc(0, 0), instruction |-> InstrHeadNorth]>>,
     <<[location |-> Loc(0, 0), instruction |-> InstrTurnLeft]>>}
DensityIntervals == {20, 100}

DensityInit ==
    /\ ServiceReady
    /\ PipelineIdle
    /\ HookIdle
    /\ PlayerIdle
    /\ CacheIdle
    /\ BatchIdle
    /\ MaintIdle
    /\ TurnIdle
    /\ route \in [path : Paths, steps : DensitySteps]
    /\ intervalMeters \in DensityIntervals
    /\ gpc = "call"
    /\ points = <<>>
    /\ fi = 0
    /\ seenLocations = {}
    /\ frames = <<>>

SpecDensity == DensityInit /\ [][FramesNext]_vars

\* The url lists of the model: the urls in turn (the sixth is the first
\* again, in the next batch), or one url twice in one batch.
UrlCycle(n) == [k \in 1..n |-> UrlOrder[((k - 1) % Len(UrlOrder)) + 1]]
UrlPairs(n) == [k \in 1..n |-> UrlOrder[(((k - 1) \div 2) % Len(UrlOrder)) + 1]]

\* What earlier sessions may have left in the store: nothing; three entries
\* short of the budget, the oldest about to expire; or every requested image
\* but the first, all fresh.
StoredAt(u, t) == [timestamp |-> t, size |-> BlobSize[u]]
FullStore == [EmptyStore EXCEPT !["u0"] = StoredAt("u0", 1),
                                !["u1"] = StoredAt("u1", 0),
                                !["u5"] = StoredAt("u5", 0)]
WarmStore == [u \in AllUrls |-> IF u \in {"u0", "u1"} THEN NoEntry ELSE StoredAt(u, 1)]

\* The calls of the model: short lists against the stores that hold few of
\* the images, lists of every length against the warm store.
Scenarios ==
    ({EmptyStore, FullStore} \X ({UrlCycle(n) : n \in 0..(MaxUrls \div 2)} \cup {UrlPairs(2)}))
        \cup ({WarmStore} \X {UrlCycle(n) : n \in 0..MaxUrls})

BatchInit ==
    /\ ServiceReady
    /\ PipelineIdle
    /\ HookIdle
    /\ PlayerIdle
    /\ FramesIdle
    /\ MaintIdle
    /\ TurnIdle
    /\ db = "null"
    /\ now = maxAge
    /\ \E scenario \in Scenarios :
          /\ store = scenario[1]
          /\ urls = scenario[2]
    /\ idb = <<>>
    /\ fetchCount = [u \in AllUrls |-> 0]
    /\ faults = 0
    /\ cpc = "call"
    /\ bi = 0
    /\ tasks = [k \in 1..Len(urls) |-> IdleTask]
    /\ results = {}
    /\ cached = 0
    /\ failed = 0
    /\ progress = <<>>

BatchNext ==
    \/ CacheImagesCall /\ UNCHANGED <<frameVars, maintVars, turnVars, serviceVars, pipeVars, appVars, hookVars, playerVars>>
    \/ BatchAwaited /\ UNCHANGED <<frameVars, maintVars, turnVars, serviceVars, pipeVars, appVars, hookVars, playerVars>>
    \/ TimerFired /\ UNCHANGED <<frameVars, maintVars, turnVars, serviceVars, pipeVars, appVars, hookVars, playerVars>>
    \/ Tick /\ UNCHANGED <<frameVars, maintVars, turnVars, serviceVars, pipeVars, appVars, hookVars, playerVars>>
    \/ \E u \in AllUrls : ExpiryDelete(u) /\ UNCHANGED <<frameVars, maintVars, turnVars, serviceVars, pipeVars, appVars, hookVars, playerVars>>
    \/ \E k \in DOMAIN tasks :
          /\ UNCHANGED <<frameVars, maintVars, turnVars, serviceVars, pipeVars, appVars, hookVars, playerVars>>
          /\ \/ OpenDone(k)
             \/ GetDone(k)
             \/ FetchDone(k)
             \/ PutDone(k)
             \/ CleanupRead(k)
             \/ CleanupDelete(k)

SpecBatch == BatchInit /\ [][BatchNext]_vars

\* ------------------------------------------------------------------------
\* clearCache and getCacheStats, beside one cacheImages call
\* ------------------------------------------------------------------------
ClearKeepingFresh(st) == [u \in AllUrls |-> IF st[u].timestamp >= 1 THEN st[u] ELSE NoEntry]

\* store.clear()
Clear(st) == [u \in AllUrls |-> NoEntry]

ClearRequest == Request("clear", 0, "images")
StatsRequest == Request("getAll", 0, "images")

\* clearCache() up to its first await: initialize() when this.db is not
\* set, else the clear request.
ClearCacheCall ==
    /\ mpc = "call"
    /\ IF db = "null"
       THEN mpc' = "opening" /\ UNCHANGED idb
       ELSE mpc' = "clearing" /\ idb' = Append(idb, ClearRequest)
    /\ UNCHANGED <<db, store, now, fetchCount, faults, spc, stats>>

\* The open request of clearCache's initialize() completes; on an error
\* clearCache rejects.
ClearOpenDone ==
    /\ mpc = "opening"
    /\ \/ /\ db' = "open"
          /\ mpc' = "clearing"
          /\ idb' = Append(idb, ClearRequest)
          /\ UNCHANGED faults
       \/ /\ faults < MaxFaults
          /\ faults' = faults + 1
          /\ mpc' = "rejected"
          /\ UNCHANGED <<db, idb>>
    /\ UNCHANGED <<store, now, fetchCount, spc, stats>>

\* The clear request completes: onsuccess resolves, onerror rejects.
ClearDone ==
    \E n \in 1..Len(idb) :
        /\ mpc = "clearing"
        /\ Ready(n) /\ idb[n] = ClearRequest
        /\ idb' = Without(n)
        /\ \/ /\ store' = Clear(store)
              /\ mpc' = "resolved"
              /\ UNCHANGED faults
           \/ /\ faults < MaxFaults
              /\ faults' = faults + 1
              /\ mpc' = "rejected"
              /\ UNCHANGED store
        /\ UNCHANGED <<db, now, fetchCount, spc, stats>>

StatsOf(st) == [count |-> Cardinality(StoredUrls(st)), totalSize |-> TotalSize(st)]

\* getCacheStats() up to its first await: getAllEntries() returns [] when
\* this.db is not set, else it issues the getAll request.
GetCacheStatsCall ==
    /\ spc = "call"
    /\ IF db = "null"
       THEN /\ spc' = "returned"
            /\ stats' = StatsOf(EmptyStore)
            /\ UNCHANGED idb
       ELSE /\ spc' = "reading"
            /\ idb' = Append(idb, StatsRequest)
            /\ UNCHANGED stats
    /\ UNCHANGED <<db, store, now, fetchCount, faults, mpc>>

\* The getAll request of getAllEntries completes: with the entries, from
\* which getCacheStats computes count and totalSize, or with an error that
\* getCacheStats rejects with.
GetCacheStatsDone ==
    \E n \in 1..Len(idb) :
        /\ spc = "reading"
        /\ Ready(n) /\ idb[n] = StatsRequest
        /\ idb' = Without(n)
        /\ \/ /\ stats' = StatsOf(store)
              /\ spc' = "returned"
              /\ UNCHANGED faults
           \/ /\ faults < MaxFaults
              /\ faults' = faults + 1
              /\ spc' = "rejected"
              /\ UNCHANGED stats
        /\ UNCHANGED <<db, store, now, fetchCount, mpc>>

\* What earlier sessions may have left in the store: any of four images,
\* stored at 0 (expired by the end of the model's clock) or at 1; up to
\* 550 MB, which is over the budget.
ClearStores ==
    {[u \in AllUrls |-> IF u \in DOMAIN ts /\ ts[u] >= 0 THEN StoredAt(u, ts[u]) ELSE NoEntry] :
        ts \in [{"u0", "u1", "u3", "u5"} -> {-1, 0, 1}]}

\* clearCache and getCacheStats run beside no cacheImages call or a call for
\* one url: one batch, so the delay between batches is never reached.
ClearInit ==
    /\ ServiceReady
    /\ PipelineIdle
    /\ HookIdle
    /\ PlayerIdle
    /\ FramesIdle
    /\ TurnIdle
    /\ db = "null"
    /\ now = maxAge
    /\ store \in ClearStores
    /\ urls \in {<<>>, <<"u1">>}
    /\ idb = <<>>
    /\ fetchCount = [u \in AllUrls |-> 0]
    /\ faults = 0
    /\ cpc = "call"
    /\ bi = 0
    /\ tasks = [k \in 1..Len(urls) |-> IdleTask]
    /\ results = {}
    /\ cached = 0
    /\ failed = 0
    /\ progress = <<>>
    /\ mpc = "call"
    /\ spc = "call"
    /\ stats = NoStats

ClearNext ==
    \/ CacheImagesCall /\ UNCHANGED <<frameVars, maintVars, turnVars, serviceVars, pipeVars, appVars, hookVars, playerVars>>
    \/ BatchAwaited /\ UNCHANGED <<frameVars, maintVars, turnVars, serviceVars, pipeVars, appVars, hookVars, playerVars>>
    \/ Tick /\ UNCHANGED <<frameVars, maintVars, turnVars, serviceVars, pipeVars, appVars, hookVars, playerVars>>
    \/ \E u \in AllUrls : ExpiryDelete(u) /\ UNCHANGED <<frameVars, maintVars, turnVars, serviceVars, pipeVars, appVars, hookVars, playerVars>>
    \/ \E k \in DOMAIN tasks :
          /\ UNCHANGED <<frameVars, maintVars, turnVars, serviceVars, pipeVars, appVars, hookVars, playerVars>>
          /\ \/ OpenDone(k)
             \/ GetDone(k)
             \/ FetchDone(k)
             \/ PutDone(k)
             \/ CleanupRead(k)
             \/ CleanupDelete(k)
    \/ /\ UNCHANGED <<frameVars, batchVars, turnVars, serviceVars, pipeVars, appVars, hookVars, playerVars>>
       /\ \/ ClearCacheCall
          \/ ClearOpenDone
          \/ ClearDone
          \/ GetCacheStatsCall
          \/ GetCacheStatsDone

SpecClear == ClearInit /\ [][ClearNext]_vars

\* ------------------------------------------------------------------------
\* extractTurnDirection and isStepATurn, called on their own
\* ------------------------------------------------------------------------
\* Parts of instructions: "Make a U-turn", "Turn left", "left onto Main St",
\* "Turn right", "right onto Elm Ave", "Continue", "straight on Rt 9",
\* "Keep LEFT", "Exit RIGHT", "Head north on 5th", "Take the ramp",
\* "Merge", "at the Fork", "Take exit 4"
TurnPhrases ==
    <<
      <<"M","a","k","e"," ","a"," ","U","-","t","u","r","n">>,
      <<"T","u","r","n"," ","l","e","f","t">>,
      <<"l","e","f","t"," ","o","n","t","o"," ","M","a","i","n"," ",
        "S","t">>,
      <<"T","u","r","n"," ","r","i","g","h","t">>,
      <<"r","i","g","h","t"," ","o","n","t","o"," ","E","l","m"," ",
        "A","v","e">>,
      <<"C","o","n","t","i","n","u","e">>,
      <<"s","t","r","a","i","g","h","t"," ","o","n"," ","R","t"," ",
        "9">>,
      <<"K","e","e","p"," ","L","E","F","T">>,
      <<"E","x","i","t"," ","R","I","G","H","T">>,
      <<"H","e","a","d"," ","n","o","r","t","h"," ","o","n"," ","5",
        "t","h">>,
      <<"T","a","k","e"," ","t","h","e"," ","r","a","m","p">>,
      <<"M","e","r","g","e">>,
      <<"a","t"," ","t","h","e"," ","F","o","r","k">>,
      <<"T","a","k","e"," ","e","x","i","t"," ","4">>
    >>

\* The instructions of the model: none, one or two of the parts, with a
\* blank between two
TurnTexts ==
    {<<>>}
        \cup {TurnPhrases[a] : a \in 1..Len(TurnPhrases)}
        \cup {TurnPhrases[a] \o <<" ">> \o TurnPhrases[b] :
                a \in 1..Len(TurnPhrases), b \in 1..Len(TurnPhrases)}

TurnInit ==
    /\ ServiceReady
    /\ PipelineIdle
    /\ HookIdle
    /\ PlayerIdle
    /\ FramesIdle
    /\ CacheIdle
    /\ BatchIdle
    /\ MaintIdle
    /\ tpc = "call"
    /\ tInstruction \in TurnTexts
    /\ tDirection = "none"
    /\ kpc = "call"
    /\ tIsTurn = "none"

\* extractTurnDirection(instruction) returns
ExtractTurnDirection ==
    /\ tpc = "call"
    /\ tDirection' = extractTurnDirection(tInstruction)
    /\ tpc' = "returned"
    /\ UNCHANGED <<tInstruction, kpc, tIsTurn, frameVars, cacheVars, batchVars, maintVars, serviceVars, pipeVars, appVars, hookVars, playerVars>>

\* isStepATurn(instruction) returns
IsStepATurn ==
    /\ kpc = "call"
    /\ tIsTurn' = isStepATurn(tInstruction)
    /\ kpc' = "returned"
    /\ UNCHANGED <<tpc, tInstruction, tDirection, frameVars, cacheVars, batchVars, maintVars, serviceVars, pipeVars, appVars, hookVars, playerVars>>

TurnNext == ExtractTurnDirection \/ IsStepATurn

SpecTurn == TurnInit /\ [][TurnNext]_vars

\* ------------------------------------------------------------------------
\* The lifecycle of GoogleMapsService: initialize() and the guarded methods
\* ------------------------------------------------------------------------
MaxCalls == 3

\* The methods that test a service field before anything else
GuardedMethods ==
    {"getRoute", "generateStreetViewFrames", "generateStreetViewFramesWithCache",
     "checkStreetViewAvailability", "getPanoramaMetadata"}

IsInitializedAlways(method) == TRUE

\* if (!this.directionsService) in getRoute, if (!this.streetViewService)
\* in the other methods
IsInitializedFor(method) ==
    IF method = "getRoute" THEN directionsService # "null"
    ELSE streetViewService # "null"

ServiceInit ==
    /\ PipelineIdle
    /\ HookIdle
    /\ PlayerIdle
    /\ FramesIdle
    /\ CacheIdle
    /\ BatchIdle
    /\ MaintIdle
    /\ TurnIdle
    /\ google \in BOOLEAN
    /\ directionsService = "null"
    /\ streetViewService = "null"
    /\ callLog = <<>>
    /\ collaboratorCalls = 0

\* The Google Maps script finishes loading.
ScriptLoaded ==
    /\ google = FALSE
    /\ google' = TRUE
    /\ UNCHANGED <<directionsService, streetViewService, callLog, collaboratorCalls>>

\* initialize(): throws while google is undefined, else creates both
\* services.
Initialize ==
    /\ Len(callLog) < MaxCalls
    /\ IF google
       THEN /\ directionsService' = "set"
            /\ streetViewService' = "set"
            /\ callLog' = Append(callLog, [method |-> "initialize", outcome |-> "resolved"])
       ELSE /\ callLog' = Append(callLog, [method |-> "initialize", outcome |-> "notLoaded"])
            /\ UNCHANGED <<directionsService, streetViewService>>
    /\ UNCHANGED <<google, collaboratorCalls>>

\* A guarded method is called: with its field not set it throws
\* '... not initialized', else it goes on to its work on the Google
\* services.
ServiceCall(method) ==
    /\ Len(callLog) < MaxCalls
    /\ IF IsInitializedFor(method)
       THEN /\ callLog' = Append(callLog, [method |-> method, outcome |-> "proceeded"])
            /\ collaboratorCalls' = collaboratorCalls + 1
       ELSE /\ callLog' = Append(callLog, [method |-> method, outcome |-> "notInitialized"])
            /\ UNCHANGED collaboratorCalls
    /\ UNCHANGED <<google, directionsService, streetViewService>>

ServiceNext ==
    /\ UNCHANGED <<frameVars, cacheVars, batchVars, maintVars, turnVars, pipeVars, appVars, hookVars, playerVars>>
    /\ \/ ScriptLoaded
       \/ Initialize
       \/ \E method \in GuardedMethods : ServiceCall(method)

SpecService == ServiceInit /\ [][ServiceNext]_vars

\* ------------------------------------------------------------------------
\* generateStreetViewFramesWithCache: the frames, then the cache
\* ------------------------------------------------------------------------
\* The k-th frame's image url as the cache knows it.  The url is the text
\* of the frame's location and heading; the frames have different
\* locations, so their urls differ and the k-th is called UrlOrder[k].
CacheName(k) == UrlOrder[k]

\* The routes of the model: no path, one point, two points 556 m apart,
\* and three points of which the second is 27.8 m from the first; without
\* steps or with a left turn at the first point.
PipelinePaths ==
    {<<>>, <<Loc(0, 0)>>, <<Loc(0, 0), Loc(100, 1)>>,
     <<Loc(0, 0), Loc(5, 0), Loc(100, 1)>>}
PipelineSteps ==
    {<<>>, <<[location |-> Loc(0, 0), instruction |-> InstrTurnLeft]>>}
PipelineRoutes == [path : PipelinePaths, steps : PipelineSteps]

\* generateStreetViewFramesWithCache(route, 100, onProgress) up to its
\* first await: it throws without the Street View service, else it calls
\* generateStreetViewFrames, which passes the same test.
WithCacheCall ==
    /\ wpc = "call"
    /\ IF streetViewService = "null"
       THEN wpc' = "threw" /\ UNCHANGED gpc
       ELSE wpc' = "frames" /\ gpc' = "call"
    /\ UNCHANGED <<route, intervalMeters, points, fi, seenLocations, frames>>
    /\ UNCHANGED <<cacheVars, batchVars, updatedFrames>>

\* await generateStreetViewFrames resumes: without frames they are
\* returned as they are, else cacheImages is called with the frames' urls.
FramesAwaited ==
    /\ wpc = "frames" /\ gpc = "returned"
    /\ IF Len(frames) = 0
       THEN /\ wpc' = "returned"
            /\ updatedFrames' = frames
            /\ UNCHANGED batchVars
       ELSE /\ wpc' = "caching"
            /\ urls' = [k \in 1..Len(frames) |-> CacheName(k)]
            /\ cpc' = "call"
            /\ bi' = 0
            /\ tasks' = [k \in 1..Len(frames) |-> IdleTask]
            /\ results' = {}
            /\ cached' = 0
            /\ failed' = 0
            /\ progress' = <<>>
            /\ UNCHANGED updatedFrames
    /\ UNCHANGED <<frameVars, cacheVars>>

\* cachedUrls.get(frame.imageUrl), undefined when the map has no such key
HandleOf(k) ==
    IF \E pair \in results : pair[1] = urls[k]
    THEN (CHOOSE pair \in results : pair[1] = urls[k])[2]
    ELSE Undefined

UpdatedFrameAlwaysCached(k) ==
    [field \in DOMAIN frames[k] \cup {"isCached"} |->
        IF field = "imageUrl" THEN BlobUrl(urls[k])
        ELSE IF field = "isCached" THEN TRUE
        ELSE frames[k][field]]

\* { ...frame, imageUrl: cachedUrls.get(frame.imageUrl) || frame.imageUrl,
\*   isCached: cachedUrls.has(frame.imageUrl) }
UpdatedFrame(k) ==
    [field \in DOMAIN frames[k] \cup {"isCached"} |->
        IF field = "imageUrl"
        THEN (IF HandleOf(k) # Undefined THEN HandleOf(k) ELSE frames[k].imageUrl)
        ELSE IF field = "isCached"
        THEN \E pair \in results : pair[1] = urls[k]
        ELSE frames[k][field]]

\* await imageCache.cacheImages resumes: the frames are returned with the
\* handles of the images that were cached.
CacheAwaited ==
    /\ wpc = "caching" /\ cpc = "returned"
    /\ updatedFrames' = [k \in 1..Len(frames) |-> UpdatedFrame(k)]
    /\ wpc' = "returned"
    /\ UNCHANGED <<frameVars, cacheVars, batchVars>>

PipelineStores == {EmptyStore, FullStore}

\* The requests of one call that may fail: as many as the frames of the
\* longest route, so that every fetch of a call can fail.
PipelineFaults == 3

WithCacheInit ==
    /\ ServiceReady
    /\ MaintIdle
    /\ TurnIdle
    /\ route \in PipelineRoutes
    /\ intervalMeters = 100
    /\ gpc = "idle"
    /\ points = <<>>
    /\ fi = 0
    /\ seenLocations = {}
    /\ frames = <<>>
    /\ db = "null"
    /\ store \in PipelineStores
    /\ now = maxAge
    /\ idb = <<>>
    /\ fetchCount = [u \in AllUrls |-> 0]
    /\ faults = MaxFaults - PipelineFaults
    /\ BatchIdle
    /\ wpc = "call"
    /\ updatedFrames = <<>>
    /\ mapsService = "ready"
    /\ apc = "idle"
    /\ routeCalls = 0
    /\ routeStatus = "none"
    /\ hookError = NoHookError
    /\ alerted = "none"
    /\ streetViewFrames = <<>>
    /\ HookIdle
    /\ PlayerIdle

\* The steps of generateStreetViewFramesWithCache and of what it awaits.
\* The frames are at most five, so cacheImages runs one batch and the
\* delay between batches is never reached.
WithCacheNext ==
    \/ WithCacheCall /\ UNCHANGED <<maintVars, turnVars, serviceVars, appVars, hookVars, playerVars>>
    \/ GenerateStart
    \/ FrameStep
    \/ GenerateReturn
    \/ FramesAwaited /\ UNCHANGED <<maintVars, turnVars, serviceVars, appVars, hookVars, playerVars>>
    \/ CacheImagesCall /\ UNCHANGED <<frameVars, maintVars, turnVars, serviceVars, pipeVars, appVars, hookVars, playerVars>>
    \/ BatchAwaited /\ UNCHANGED <<frameVars, maintVars, turnVars, serviceVars, pipeVars, appVars, hookVars, playerVars>>
    \/ Tick /\ UNCHANGED <<frameVars, maintVars, turnVars, serviceVars, pipeVars, appVars, hookVars, playerVars>>
    \/ \E u \in AllUrls : ExpiryDelete(u) /\ UNCHANGED <<frameVars, maintVars, turnVars, serviceVars, pipeVars, appVars, hookVars, playerVars>>
    \/ \E k \in DOMAIN tasks :
          /\ UNCHANGED <<frameVars, maintVars, turnVars, serviceVars, pipeVars, appVars, hookVars, playerVars>>
          /\ \/ OpenDone(k)
             \/ GetDone(k)
             \/ FetchDone(k)
             \/ PutDone(k)
             \/ CleanupRead(k)
             \/ CleanupDelete(k)
    \/ CacheAwaited /\ UNCHANGED <<maintVars, turnVars, serviceVars, appVars, hookVars, playerVars>>

SpecWithCache == WithCacheInit /\ [][WithCacheNext]_vars

\* ------------------------------------------------------------------------
\* App.handleGenerateVideo: the route, then the frames with the cache
\* ------------------------------------------------------------------------
\* if (routeData.totalDistance > 160934)
RouteDistanceCap == 160934

\* What the routing provider answers: a status, and with OK a route of the
\* model and its length in metres.
RouteStatuses == {"OK", "ZERO_RESULTS", "REQUEST_DENIED"}
RouteDistances == {1000, 200000}

RouteStatusOkAlways(status) == TRUE

\* status === google.maps.DirectionsStatus.OK && result
RouteStatusOk(status) == status = "OK"

\* alert(err.message) in the catch of handleGenerateVideo
AlertOf(message) == message

AppScreenIgnoringError == IF ~isLoaded THEN "loading" ELSE "main"

\* What App renders: `if (error)` the error screen, `if (!isLoaded)` the
\* loading screen, else the page with the pickers and the generate button.
AppScreen ==
    IF hookError # NoHookError THEN "error"
    ELSE IF ~isLoaded THEN "loading"
    ELSE "main"

\* handleGenerateVideo up to `await getRoute`: without both locations it
\* alerts and returns.  The hook's getRoute returns null when it has no
\* service, and when the service's getRoute throws for want of the
\* directions service; then handleGenerateVideo throws into its catch.
\* Otherwise directionsService.route is called.
HandleGenerateVideo ==
    /\ apc = "idle"
    /\ AppScreen = "main"
    /\ \E located \in BOOLEAN :
          IF ~located
          THEN /\ alerted' = AlertOf("Please select both start and end locations")
               /\ apc' = "done"
               /\ UNCHANGED <<routeCalls, hookError, streetViewFrames>>
          ELSE /\ streetViewFrames' = <<>>
               /\ IF mapsService = "null" \/ directionsService = "null"
                  THEN /\ hookError' = HookError("Google Maps service not initialized", "none")
                       /\ alerted' = AlertOf("Failed to get route")
                       /\ apc' = "done"
                       /\ UNCHANGED routeCalls
                  ELSE /\ routeCalls' = routeCalls + 1
                       /\ apc' = "routing"
                       /\ UNCHANGED <<hookError, alerted>>
    /\ UNCHANGED <<frameVars, cacheVars, batchVars, maintVars, turnVars, serviceVars,
                   pipeVars, mapsService, routeStatus, hookVars, playerVars>>

\* The callback of directionsService.route: with OK the service resolves
\* with the parsed route, else it rejects, the hook sets its error and
\* returns null, and handleGenerateVideo throws 'Failed to get route' into
\* its catch.  A route over the cap is refused with an alert; any other is
\* handed to generateStreetViewFramesWithCache.
RouteAnswered ==
    /\ apc = "routing"
    /\ \E status \in RouteStatuses, rt \in PipelineRoutes, totalDistance \in RouteDistances :
          /\ routeStatus' = status
          /\ IF RouteStatusOk(status)
             THEN IF totalDistance > RouteDistanceCap
                  THEN /\ alerted' = AlertOf("Route too long")
                       /\ apc' = "done"
                       /\ UNCHANGED <<route, wpc, hookError>>
                  ELSE /\ route' = rt
                       /\ wpc' = "call"
                       /\ apc' = "withCache"
                       /\ UNCHANGED <<alerted, hookError>>
             ELSE /\ hookError' = HookError("Failed to get route: ", status)
                  /\ alerted' = AlertOf("Failed to get route")
                  /\ apc' = "done"
                  /\ UNCHANGED <<route, wpc>>
    /\ UNCHANGED <<intervalMeters, gpc, points, fi, seenLocations, frames>>
    /\ UNCHANGED <<cacheVars, batchVars, maintVars, turnVars, serviceVars>>
    /\ UNCHANGED <<updatedFrames, mapsService, routeCalls, streetViewFrames,
                   hookVars, playerVars>>

\* The hook's generateStreetViewFramesWithCache, which App.tsx takes from
\* useGoogleMaps(): like the hook's generateStreetViewFrames it passes the
\* frames of the service on and turns a rejection into the empty list.
HookFramesWithCache == IF wpc = "threw" THEN <<>> ELSE updatedFrames

\* `await generateStreetViewFramesWithCache` resumes in handleGenerateVideo:
\* setStreetViewFrames(frames).
GenerateVideoDone ==
    /\ apc = "withCache"
    /\ wpc \in {"returned", "threw"}
    /\ streetViewFrames' = HookFramesWithCache
    /\ hookError' = IF wpc = "threw"
                    THEN HookError("Street View service not initialized", "none")
                    ELSE hookError
    /\ apc' = "done"
    /\ UNCHANGED <<frameVars, cacheVars, batchVars, maintVars, turnVars, serviceVars,
                   pipeVars, mapsService, routeCalls, routeStatus, alerted,
                   hookVars, playerVars>>

AppInit ==
    /\ ServiceReady
    /\ MaintIdle
    /\ TurnIdle
    /\ FramesIdle
    /\ db = "null"
    /\ store \in PipelineStores
    /\ now = maxAge
    /\ idb = <<>>
    /\ fetchCount = [u \in AllUrls |-> 0]
    /\ faults = 0
    /\ BatchIdle
    /\ PipelineIdle
    /\ HookIdle
    /\ PlayerIdle

AppNext ==
    \/ HandleGenerateVideo
    \/ RouteAnswered
    \/ WithCacheNext
    \/ GenerateVideoDone

SpecApp == AppInit /\ [][AppNext]_vars

\* ------------------------------------------------------------------------
\* useGoogleMaps from its mount on, and the generations App starts
\* ------------------------------------------------------------------------
MaxGenerations == 2

\* The mount effect, initializeGoogleMaps: without an API key, when the
\* script fails to load, or when service.initialize() throws, the catch
\* sets the error; else the service is kept and isLoaded is set.
initializeGoogleMaps ==
    /\ hpc = "mounting"
    /\ hpc' = "mounted"
    /\ \E apiKey \in BOOLEAN, scriptLoads \in BOOLEAN :
          IF ~apiKey
          THEN /\ hookError' = HookError("Google Maps API key is required", "none")
               /\ UNCHANGED <<mapsService, isLoaded, google, directionsService,
                              streetViewService>>
          ELSE IF ~google /\ ~scriptLoads
          THEN /\ hookError' = HookError("Failed to load Google Maps script", "none")
               /\ UNCHANGED <<mapsService, isLoaded, google, directionsService,
                              streetViewService>>
          ELSE /\ google' = TRUE
               /\ directionsService' = "set"
               /\ streetViewService' = "set"
               /\ mapsService' = "ready"
               /\ isLoaded' = TRUE
               /\ UNCHANGED hookError
    /\ UNCHANGED <<frameVars, cacheVars, batchVars, maintVars, turnVars, pipeVars,
                   playerVars, callLog, collaboratorCalls>>
    /\ UNCHANGED <<apc, routeCalls, routeStatus, alerted, streetViewFrames>>

\* generateStreetViewFramesWithCache as the hook and App see it: one await
\* that throws without the Street View service and resolves otherwise.
\* The frames it resolves with play no part in the hook's state and are
\* left out here.
WithCacheSettled ==
    /\ apc = "withCache"
    /\ wpc = "call"
    /\ wpc' = IF streetViewService = "null" THEN "threw" ELSE "returned"
    /\ UNCHANGED <<frameVars, cacheVars, batchVars, maintVars, turnVars, serviceVars,
                   updatedFrames, appVars, hookVars, playerVars>>

\* finally { setIsLoading(false) }: handleGenerateVideo has ended and the
\* button, where it is rendered, can be pressed again.
GenerateVideoFinally ==
    /\ apc = "done"
    /\ routeCalls < MaxGenerations
    /\ apc' = "idle"
    /\ UNCHANGED <<frameVars, cacheVars, batchVars, maintVars, turnVars, serviceVars,
                   pipeVars, hookVars, playerVars>>
    /\ UNCHANGED <<mapsService, routeCalls, routeStatus, hookError, alerted,
                   streetViewFrames>>

\* useState(null), useState(false), useState(null) of the hook, the mount
\* effect not yet run; the Maps script may already be on the page.
HookInit ==
    /\ MaintIdle
    /\ TurnIdle
    /\ FramesIdle
    /\ CacheIdle
    /\ BatchIdle
    /\ PlayerIdle
    /\ google \in BOOLEAN
    /\ directionsService = "null"
    /\ streetViewService = "null"
    /\ callLog = <<>>
    /\ collaboratorCalls = 0
    /\ wpc = "idle"
    /\ updatedFrames = <<>>
    /\ mapsService = "null"
    /\ apc = "idle"
    /\ routeCalls = 0
    /\ routeStatus = "none"
    /\ hookError = NoHookError
    /\ alerted = "none"
    /\ streetViewFrames = <<>>
    /\ hpc = "mounting"
    /\ isLoaded = FALSE

HookNext ==
    \/ initializeGoogleMaps
    \/ HandleGenerateVideo
    \/ RouteAnswered
    \/ WithCacheSettled
    \/ GenerateVideoDone
    \/ GenerateVideoFinally

SpecHook == HookInit /\ [][HookNext]_vars

\* ------------------------------------------------------------------------
\* StreetViewPlayer: the playback state and its controls
\* ------------------------------------------------------------------------
MaxFrames == 4

\* The speeds offered, [0.1, 0.25, 0.5, 1, 1.5, 2], in hundredths
PlaybackSpeeds == {10, 25, 50, 100, 150, 200}

\* Where a click lands on the progress bar, (clickX / rect.width) * 100:
\* from the left edge (0) to the right edge (100), and just outside the
\* bar on a child that overflows it.
ClickPercents == {0 - 5, 0, 30, 50, 99, 100, 105}

\* (frame / frames.length) * 100
ProgressOf(frame, length) == Ratio(frame * 100, length)

Max2(a, b) == IF a >= b THEN a ELSE b
Min2(a, b) == IF a <= b THEN a ELSE b

clampedFrameUnclamped(frameIndex, length) == frameIndex

\* const clampedFrame = Math.max(0, Math.min(frameIndex, frames.length - 1))
clampedFrame(frameIndex, length) == Max2(0, Min2(frameIndex, length - 1))

\* const targetFrame = Math.floor((progressPercent / 100) * frames.length)
targetFrame(progressPercent, length) == (progressPercent * length) \div 100

nextFrameStuck(prev) == prev

\* const nextFrame = prev.currentFrame + 1
nextFrame(prev) == prev + 1

\* if (frames.length === 0) the player renders no controls
ControlsRendered == playerFrames > 0

\* The setInterval callback; the interval is set while
\* playerState.isPlaying && frames.length > 0.
TimerTick ==
    /\ isPlaying
    /\ playerFrames > 0
    /\ IF nextFrame(currentFrame) >= playerFrames
       THEN /\ isPlaying' = FALSE
            /\ currentFrame' = playerFrames - 1
            /\ playerProgress' = Ratio(100, 1)
       ELSE /\ currentFrame' = nextFrame(currentFrame)
            /\ playerProgress' = ProgressOf(nextFrame(currentFrame), playerFrames)
            /\ UNCHANGED isPlaying
    /\ UNCHANGED <<playerFrames, totalFrames, playbackSpeed>>

togglePlayPause ==
    /\ ControlsRendered
    /\ isPlaying' = ~isPlaying
    /\ UNCHANGED <<playerFrames, currentFrame, totalFrames, playbackSpeed, playerProgress>>

seekToFrame(frameIndex) ==
    /\ currentFrame' = clampedFrame(frameIndex, playerFrames)
    /\ playerProgress' = ProgressOf(clampedFrame(frameIndex, playerFrames), playerFrames)
    /\ UNCHANGED <<playerFrames, isPlaying, totalFrames, playbackSpeed>>

handleProgressBarClick ==
    /\ ControlsRendered
    /\ \E progressPercent \in ClickPercents :
          seekToFrame(targetFrame(progressPercent, playerFrames))

changePlaybackSpeed ==
    /\ ControlsRendered
    /\ \E speed \in PlaybackSpeeds : playbackSpeed' = speed
    /\ UNCHANGED <<playerFrames, isPlaying, currentFrame, totalFrames, playerProgress>>

reset ==
    /\ ControlsRendered
    /\ isPlaying' = FALSE
    /\ currentFrame' = 0
    /\ playerProgress' = Ratio(0, 1)
    /\ UNCHANGED <<playerFrames, totalFrames, playbackSpeed>>

OutsidePlayer ==
    UNCHANGED <<frameVars, cacheVars, batchVars, maintVars, turnVars, serviceVars,
                pipeVars, appVars, hookVars>>

\* The player mounted on a list of frames: the initial state, which the
\* effect on [frames] leaves as it is.
PlayerInit ==
    /\ ServiceReady
    /\ MaintIdle
    /\ TurnIdle
    /\ FramesIdle
    /\ CacheIdle
    /\ BatchIdle
    /\ PipelineIdle
    /\ HookIdle
    /\ playerFrames \in 0..MaxFrames
    /\ isPlaying = FALSE
    /\ currentFrame = 0
    /\ totalFrames = playerFrames
    /\ playbackSpeed = 100
    /\ playerProgress = Ratio(0, 1)

PlayerNext ==
    \/ TimerTick /\ OutsidePlayer
    \/ togglePlayPause /\ OutsidePlayer
    \/ handleProgressBarClick /\ OutsidePlayer
    \/ changePlaybackSpeed /\ OutsidePlayer
    \/ reset /\ OutsidePlayer

SpecPlayer == PlayerInit /\ [][PlayerNext]_vars

\* The player left to its timer: playback is running on a non-empty list,
\* in any state the controls can have brought it to, and only the interval
\* acts.  setInterval keeps firing while isPlaying && frames.length > 0,
\* so the tick is taken whenever it stays enabled.
PlaybackInit ==
    /\ ServiceReady
    /\ MaintIdle
    /\ TurnIdle
    /\ FramesIdle
    /\ CacheIdle
    /\ BatchIdle
    /\ PipelineIdle
    /\ HookIdle
    /\ playerFrames \in 1..MaxFrames
    /\ isPlaying = TRUE
    /\ currentFrame \in 0..(playerFrames - 1)
    /\ totalFrames = playerFrames
    /\ playbackSpeed \in PlaybackSpeeds
    /\ playerProgress \in
           {ProgressOf(currentFrame, playerFrames)}
           \cup (IF currentFrame = playerFrames - 1 THEN {Ratio(100, 1)} ELSE {})

PlaybackNext == TimerTick /\ OutsidePlayer

SpecPlayback == PlaybackInit /\ [][PlaybackNext]_vars /\ WF_vars(PlaybackNext)

\* ------------------------------------------------------------------------
\* Properties of the sampler and the frame builder (under SpecFrames)
\* ------------------------------------------------------------------------
Sampled == gpc # "call"
Returned == gpc = "returned"
PathLen == Len(route.path)

\* C1: for a route with a non-empty path, the sampled points begin with the
\* path's first coordinate and end with the path's last coordinate, for
\* every list of steps and every base interval.
C1_FirstAndLastSample ==
    (Sampled /\ PathLen > 0) =>
        /\ Len(points) > 0
        /\ points[1] = route.path[1]
        /\ points[Len(points)] = route.path[PathLen]

C1_Witness ==
    /\ Returned
    /\ PathLen = 3
    /\ route.path[1] # route.path[3]
    /\ route.steps # <<>>
    /\ Len(points) = 3

\* The path distance from path point j to path point i, segment by segment
RECURSIVE PathDistance(_, _)
PathDistance(j, i) ==
    IF i <= j THEN 0
    ELSE PathDistance(j, i - 1) + DistanceCm[route.path[i - 1], route.path[i]]

NearManeuver(i) ==
    \E k \in 1..Len(route.steps) :
        /\ StepIsATurn[route.steps[k].instruction]
        /\ DistanceCm[route.path[i], route.steps[k].location] <= 3000

\* baseInterval/100 near a maneuver and 5*baseInterval elsewhere, in cm
IntervalInEffect(i) ==
    IF NearManeuver(i) THEN intervalMeters ELSE 500 * intervalMeters

\* The walk after each path point, and the path index of its last sample
WalkAfter == [i \in 1..PathLen |-> Walk(route, intervalMeters, i)]
LastWalkSample(W, i) == W[i].index[Len(W[i].index)]

WalkAppends(W, i) ==
    /\ W[i].points = Append(W[i - 1].points, route.path[i])
    /\ W[i].accumulatedDistance = 0

WalkCarries(W, i) ==
    /\ W[i].points = W[i - 1].points
    /\ W[i].accumulatedDistance = PathDistance(LastWalkSample(W, i - 1), i)

\* C2: in the walk, path point i >= 1 (0-based) is appended iff the path
\* distance since the most recently appended walk sample (or the start) is
\* at least the interval in effect at point i; an append resets the
\* accumulator, and otherwise the accumulator carries on, also across
\* near/not-near transitions.  The sampled points are the walk's samples
\* followed by the last path point.
C2_AppendIffIntervalReached ==
    (Sampled /\ PathLen > 0) =>
        LET W == WalkAfter
        IN  /\ \A i \in 2..PathLen :
                  IF PathDistance(LastWalkSample(W, i - 1), i) >= IntervalInEffect(i)
                  THEN WalkAppends(W, i)
                  ELSE WalkCarries(W, i)
            /\ points = Append(W[PathLen].points, route.path[PathLen])

\* A point is passed over far from the maneuver and the distance it added
\* makes the next point, near the maneuver, a sample.
C2_Witness ==
    /\ Returned
    /\ PathLen = 3
    /\ ~NearManeuver(2) /\ WalkCarries(WalkAfter, 2)
    /\ NearManeuver(3) /\ WalkAppends(WalkAfter, 3)
    /\ DistanceCm[route.path[2], route.path[3]] < IntervalInEffect(3)
    /\ WalkAfter[2].accumulatedDistance > 0

\* round(lat*10000), round(lng*10000) of a location
QuantizedKey(p) == <<(p.lat + 1) \div 2, (p.lng + 1) \div 2>>

\* C3: the returned frames have pairwise distinct quantized location keys,
\* and two consecutive frames are a positive distance apart.
C3_DistinctQuantizedKeys ==
    /\ \A j, k \in 1..Len(frames) :
          j # k => QuantizedKey(frames[j].location) # QuantizedKey(frames[k].location)
    /\ \A j \in 1..(Len(frames) - 1) :
          DistanceCm[frames[j].location, frames[j + 1].location] > 0

\* Two different sampled points share a key and one of them is dropped.
C3_Witness ==
    /\ Returned
    /\ Len(frames) >= 2
    /\ \E j, k \in 1..Len(points) :
          /\ j < k
          /\ points[j] # points[k]
          /\ QuantizedKey(points[j]) = QuantizedKey(points[k])

\* C4: frames come in route order with strictly increasing timestamps, and
\* a frame's timestamp is the 0-based position of its point in the
\* sampled-point sequence.
C4_FramesInRouteOrder ==
    /\ \A j, k \in 1..Len(frames) :
          j < k => frames[j].timestamp < frames[k].timestamp
    /\ \A k \in 1..Len(frames) :
          /\ frames[k].timestamp \in 0..(Len(points) - 1)
          /\ frames[k].timestamp < fi
          /\ frames[k].location = points[frames[k].timestamp + 1]

C4_Witness ==
    /\ Returned
    /\ Len(frames) >= 3

\* C5 as stated: the k-th returned frame (0-based) has timestamp k.
C5_ContiguousTimestamps ==
    \A k \in 1..Len(frames) : frames[k].timestamp = k - 1

\* The keys of the sampled points 1..n are pairwise distinct
NoneSkippedUpTo(n) ==
    \A j, k \in 1..n : j # k => QuantizedKey(points[j]) # QuantizedKey(points[k])

\* C5 (amended): the k-th returned frame's timestamp is the 0-based position
\* of its point among the sampled points: it is at least k, and it is k
\* exactly when deduplication skipped no sampled point before it.
C5_TimestampIsSampleIndex ==
    \A k \in 1..Len(frames) :
        /\ frames[k].timestamp >= k - 1
        /\ frames[k].location = points[frames[k].timestamp + 1]
        /\ (frames[k].timestamp = k - 1) <=> NoneSkippedUpTo(frames[k].timestamp + 1)

C5_Witness ==
    /\ Returned
    /\ \E k \in 1..Len(frames) : frames[k].timestamp > k - 1

\* ------------------------------------------------------------------------
\* Properties of the image cache (under SpecBatch)
\* ------------------------------------------------------------------------
Completed(k) == tasks[k].pc = "done"
BatchNumber(k) == (k - 1) \div 5

\* Calls j and k of cacheImage for one url, k made after j has returned:
\* cacheImages awaits the batch of j before it starts the batch of k.
InSequence(j, k) ==
    /\ j \in DOMAIN tasks /\ k \in DOMAIN tasks
    /\ urls[j] = urls[k]
    /\ BatchNumber(j) < BatchNumber(k)

\* The step in which the read of call k in getCachedImage completes
ReadCompletes(k) == tasks[k].pc = "getting" /\ tasks'[k].pc # "getting"

\* The stored entry of url u is there and within max-age
FreshlyStored(u) == store[u].timestamp >= 0 /\ now - store[u].timestamp <= 2

\* C6 as stated: of two calls of cacheImage(url) in sequence, within
\* max-age, the second is a cache hit and the url was fetched exactly once.
C6_ExactlyOneFetch ==
    \A j, k \in DOMAIN tasks :
        (InSequence(j, k) /\ Completed(k)) =>
            /\ fetchCount[urls[k]] = 1
            /\ tasks[k].outcome = "hit"

\* Some cleanupCache of this cacheImages call has asked to delete url u
EvictedSomewhere(u) ==
    \E i \in DOMAIN tasks : \E n \in 1..Len(tasks[i].evicted) :
        tasks[i].evicted[n].url = u

\* C6 (amended): of two calls of cacheImage(url) in sequence, when the first
\* fetched and stored the image and the read of the second succeeds and
\* finds that entry still stored and within max-age, the second returns a
\* handle as a cache hit and the url has been fetched exactly once; the
\* entry that the first call stored is still there unless it was evicted or
\* a third call for the url has run.
\* When the read of the second fails or finds no entry within max-age (the
\* first call failed, or its entry was evicted or has expired) the second
\* call fetches.
C6_SecondCallHitsStoredEntry ==
    [][\A j, k \in DOMAIN tasks :
          (InSequence(j, k) /\ ReadCompletes(k)) =>
              /\ (/\ tasks[j].outcome = "stored"
                  /\ ~EvictedSomewhere(urls[k])
                  /\ \A i \in DOMAIN tasks \ {j, k} : urls[i] # urls[k]) =>
                     store[urls[k]].timestamp >= 0
              /\ IF FreshlyStored(urls[k]) /\ faults' = faults
                THEN /\ tasks'[k].outcome = "hit"
                     /\ <<urls[k], BlobUrl(urls[k])>> \in results'
                     /\ fetchCount' = fetchCount
                     /\ tasks[j].outcome = "stored" => fetchCount[urls[k]] = 1
                ELSE /\ tasks'[k].pc = "fetching"
                     /\ fetchCount'[urls[k]] = fetchCount[urls[k]] + 1]_vars

C6_Witness ==
    \E j, k \in DOMAIN tasks :
        /\ InSequence(j, k)
        /\ tasks[j].outcome = "stored"
        /\ tasks[k].outcome = "hit"
        /\ fetchCount[urls[k]] = 1

\* The step in which cleanupCache of call k, having deleted entries,
\* returns and cacheImage returns with it
EvictionReturns(k) == tasks[k].pc = "cleanupDel" /\ tasks'[k].pc = "done"

WithinBuffer(st) == TotalSize(st) * 10 <= 500 * 8

\* No entry of st is older than an entry of the sequence es
NoneOlderThan(st, es) ==
    \A v \in StoredUrls(st) : \A n \in 1..Len(es) :
        st[v].timestamp >= es[n].timestamp

Ascending(es) ==
    \A m, n \in 1..Len(es) : m < n => es[m].timestamp <= es[n].timestamp

C8_Backpressure ==
    /\ Cardinality(InFlight) <= 5
    /\ \A j, k \in DOMAIN tasks :
          (BatchNumber(j) < BatchNumber(k) /\ tasks[k].pc # "idle") => Completed(j)

C8_Witness ==
    /\ Len(urls) > 5
    /\ Cardinality(InFlight) = 5
    /\ \E k \in DOMAIN tasks : BatchNumber(k) = 1 /\ tasks[k].pc = "idle"

NumCompleted == Cardinality({k \in DOMAIN tasks : Completed(k)})

\* C9: onProgress is invoked once per url, at that url's completion; at
\* every invocation total is the number of urls and cached + failed is the
\* number of urls completed so far, in every order of completion.
C9_ProgressPerCompletion ==
    /\ Len(progress) = NumCompleted
    /\ \A n \in 1..Len(progress) :
          /\ progress[n].total = Len(urls)
          /\ progress[n].cached + progress[n].failed = n
    /\ cached + failed = NumCompleted
    /\ cpc = "returned" => Len(progress) = Len(urls)

C9_Witness ==
    /\ Len(urls) >= 3
    /\ ~Completed(1)
    /\ Completed(2)
    /\ failed > 0
    /\ Len(progress) >= 2

\* C10: within one cacheImages call on a non-empty list the percentages
\* passed to onProgress never decrease, and the last one is exactly 100,
\* whatever succeeds and fails.
C10_PercentageMonotoneTo100 ==
    /\ \A n \in 1..(Len(progress) - 1) :
          progress[n].percentage.num * progress[n + 1].percentage.den
              <= progress[n + 1].percentage.num * progress[n].percentage.den
    /\ (cpc = "returned" /\ Len(urls) > 0) =>
          /\ Len(progress) > 0
          /\ progress[Len(progress)].percentage.num
                = 100 * progress[Len(progress)].percentage.den

C10_Witness ==
    /\ cpc = "returned"
    /\ Len(progress) >= 2
    /\ cached > 0
    /\ failed > 0

\* The calls of cacheImage that returned a handle
Succeeded == {k \in DOMAIN tasks : tasks[k].outcome \in {"hit", "stored"}}

\* C11: cacheImages resolves whichever urls fail (cacheImage returning null
\* or throwing): every call of cacheImage settles its callback, the loop
\* runs to the return, and the result map holds url -> handle for exactly
\* the urls whose cacheImage returned a handle.
C11_ResolvesWithSucceededUrls ==
    /\ cpc \in {"call", "batch", "delay", "returned"}
    /\ results = {<<urls[k], BlobUrl(urls[k])>> : k \in Succeeded}
    /\ cpc = "returned" =>
          /\ \A k \in DOMAIN tasks : Completed(k)
          /\ \A k \in DOMAIN tasks :
                tasks[k].outcome \in {"null", "threw"} =>
                    \/ \E j \in Succeeded : urls[j] = urls[k]
                    \/ \A r \in results : r[1] # urls[k]

C11_Witness ==
    /\ cpc = "returned"
    /\ \E k \in DOMAIN tasks : tasks[k].outcome = "threw"
    /\ \E k \in DOMAIN tasks : tasks[k].outcome = "stored"
    /\ Cardinality(results) < Len(urls)

\* The step in which the fetch of call k fails or answers with a status
\* that is not ok
FetchFails(k) ==
    /\ tasks[k].pc = "fetching" /\ tasks'[k].pc # "fetching"
    /\ faults' # faults

\* Call k has returned null without having built an entry: its fetch failed
FetchFailed(k) ==
    /\ Completed(k)
    /\ tasks[k].outcome = "null"
    /\ tasks[k].entry.timestamp < 0

\* The stores that a call may find
StoresBefore == {EmptyStore, FullStore, WarmStore}

\* C12 as stated: a single cacheImage(url) whose fetch fails returns null
\* and leaves the store as it found it.
C12_FailedFetchLeavesStore ==
    (Len(urls) = 1 /\ FetchFailed(1)) => store \in StoresBefore

\* C12 (amended): when the fetch fails or answers with a status that is not
\* ok, cacheImage(url) returns null instead of throwing; it creates or
\* overwrites no entry and runs no eviction.  The only change it can make to
\* the store is the delete that its read issued for the expired entry of
\* url.
C12_FailedFetchStoresNothing ==
    [][/\ \A k \in DOMAIN tasks :
             FetchFails(k) =>
                 /\ Completed(k)'
                 /\ tasks'[k].outcome = "null"
                 /\ store' = store
                 /\ idb' = idb
                 /\ results' = results
                 /\ failed' = failed + 1
       /\ (Len(urls) = 1 /\ FetchFailed(1)') =>
             \E before \in StoresBefore :
                 /\ \A v \in AllUrls \ {urls[1]} : store'[v] = before[v]
                 /\ \/ store'[urls[1]] = before[urls[1]]
                    \/ /\ store'[urls[1]] = NoEntry
                       /\ before[urls[1]].timestamp >= 0
                       /\ now' - before[urls[1]].timestamp > 2]_vars

C12_Witness ==
    /\ Len(urls) = 1
    /\ FetchFailed(1)
    /\ cpc = "returned"
    /\ store = [FullStore EXCEPT ![urls[1]] = NoEntry]

\* C13: a failure of the persistent store (open, read or write) never makes
\* cacheImage reject: the call resolves, to null where nothing was cached.
C13_StorageErrorsNeverReject ==
    \A k \in DOMAIN tasks : Completed(k) => tasks[k].outcome # "threw"

\* Calls j and k of cacheImage for one url that overlap in time: cacheImages
\* starts them in one batch.
Overlapping(j, k) ==
    /\ j \in DOMAIN tasks /\ k \in DOMAIN tasks
    /\ j < k
    /\ urls[j] = urls[k]
    /\ BatchNumber(j) = BatchNumber(k)

\* C14: when two calls of cacheImage for one url overlap in time, the url
\* is fetched at most once.
C14_OverlappingCallsFetchOnce ==
    \A j, k \in DOMAIN tasks :
        Overlapping(j, k) => fetchCount[urls[k]] <= 1

\* The delete that the read of url u issues for its expired entry, and the
\* number of such deletes that have not completed
ExpiryRequest(u) == [kind |-> "delete", k |-> 0, url |-> u]
PendingExpiry(q, u) == Cardinality({n \in 1..Len(q) : q[n] = ExpiryRequest(u)})

\* The stored entry of url u is there and older than max-age
StoredExpired(u) == store[u].timestamp >= 0 /\ now - store[u].timestamp > 2

\* C15 as stated: the read returns a handle iff an entry of age <= max-age
\* is stored; for an older entry it returns null and issues a delete.
C15_HandleIffFreshEntry ==
    [][\A k \in DOMAIN tasks :
          ReadCompletes(k) =>
              /\ tasks'[k].outcome = "hit" <=> FreshlyStored(urls[k])
              /\ StoredExpired(urls[k]) =>
                    PendingExpiry(idb', urls[k]) = PendingExpiry(idb, urls[k]) + 1]_vars

\* C15 (amended): when its get request succeeds, getCachedImage(url)
\* returns a handle iff an entry for url is stored with age <= max-age; for
\* an entry with age > max-age it returns null and issues one delete, and
\* no delete otherwise; the entry is gone when that delete completes with
\* success.  When the get request fails it returns null and issues no
\* delete.  An entry leaves the store only by such a delete, issued by a
\* read of its url that found it expired, or by an eviction.
C15_ExpiryOnRead ==
    [][/\ \A k \in DOMAIN tasks :
             ReadCompletes(k) =>
                 /\ store' = store
                 /\ faults' = faults =>
                       /\ tasks'[k].outcome = "hit" <=> FreshlyStored(urls[k])
                       /\ IF StoredExpired(urls[k])
                          THEN /\ tasks'[k].pc = "fetching"
                               /\ Len(idb') = Len(idb)
                               /\ idb'[Len(idb')] = ExpiryRequest(urls[k])
                          ELSE Len(idb') = Len(idb) - 1
                 /\ faults' # faults =>
                       /\ tasks'[k].pc = "fetching"
                       /\ Len(idb') = Len(idb) - 1
       /\ \A u \in AllUrls :
             /\ PendingExpiry(idb', u) > PendingExpiry(idb, u) =>
                   /\ StoredExpired(u)
                   /\ \E k \in DOMAIN tasks : urls[k] = u /\ ReadCompletes(k)
             /\ (PendingExpiry(idb', u) < PendingExpiry(idb, u) /\ faults' = faults) =>
                   store'[u] = NoEntry
             /\ (store[u] # NoEntry /\ store'[u] = NoEntry) =>
                   \/ PendingExpiry(idb', u) < PendingExpiry(idb, u)
                   \/ \E k \in DOMAIN tasks :
                         /\ tasks[k].pc = "cleanupDel"
                         /\ Head(tasks[k].queue).url = u]_vars

C15_Witness ==
    \E k \in DOMAIN tasks :
        /\ tasks[k].pc = "fetching"
        /\ PendingExpiry(idb, urls[k]) = 1
        /\ StoredExpired(urls[k])
        /\ \E u \in AllUrls \ {urls[k]} : StoredExpired(u)

\* No cacheImage call is under way and no write is pending on the store
NoStoreOperationInFlight ==
    /\ \A k \in DOMAIN tasks : tasks[k].pc \in {"idle", "done"}
    /\ \A n \in 1..Len(idb) : idb[n].kind \notin {"put", "delete"}

\* C16: when clearCache() resolves the store is empty, whatever the entries'
\* ages and sizes were; with no store operation in flight it stays empty,
\* and getCacheStats() then resolves with count 0 and totalSize 0.
C16_ClearEmptiesStore ==
    [][/\ (mpc = "clearing" /\ mpc' = "resolved") =>
             \A u \in AllUrls : store'[u].timestamp < 0 /\ store'[u].size = 0
       /\ (mpc = "resolved" /\ store = EmptyStore /\ NoStoreOperationInFlight) =>
             /\ store' = EmptyStore
             /\ (spc = "reading" /\ spc' = "returned") =>
                   stats' = [count |-> 0, totalSize |-> 0]]_vars

C16_Witness ==
    /\ mpc = "resolved"
    /\ spc = "returned"
    /\ stats = [count |-> 0, totalSize |-> 0]
    /\ NoStoreOperationInFlight
    /\ \E k \in DOMAIN tasks : tasks[k].outcome = "stored"
    /\ store = EmptyStore

\* The maneuver steps within 30 m of point p, and those of them at minimal
\* distance
ManeuversNear(p) ==
    {k \in 1..Len(route.steps) :
        /\ isStepATurn(route.steps[k].instruction)
        /\ calculateDistance(p, route.steps[k].location) <= 3000}
ClosestManeuvers(p) ==
    {k \in ManeuversNear(p) :
        \A m \in ManeuversNear(p) :
            calculateDistance(p, route.steps[k].location)
                <= calculateDistance(p, route.steps[m].location)}

\* C17 as stated: a frame with maneuver steps within the approach radius
\* has the instruction and the direction of one at minimal distance.
C17_ClosestManeuverWins ==
    \A n \in 1..Len(frames) :
        ManeuversNear(frames[n].location) # {} =>
            \E k \in ClosestManeuvers(frames[n].location) :
                /\ frames[n].turnInstruction = route.steps[k].instruction
                /\ frames[n].turnDirection = extractTurnDirection(route.steps[k].instruction)

\* "Continue straight to destination"
InstrToDestination ==
    <<"C","o","n","t","i","n","u","e"," ","s","t","r","a","i","g","h","t"," ",
      "t","o"," ","d","e","s","t","i","n","a","t","i","o","n">>

\* No maneuver step lies within the approach radius (60 m) of point p
NoManeuverWithinApproach(p) ==
    \A k \in 1..Len(route.steps) :
        isStepATurn(route.steps[k].instruction) =>
            calculateDistance(p, route.steps[k].location) > 6000

\* The final step of the route lies within the destination radius (100 m)
\* of point p
FinalStepWithinDestination(p) ==
    /\ Len(route.steps) > 0
    /\ calculateDistance(p, route.steps[Len(route.steps)].location) <= 10000

\* C18 as stated: a frame with no maneuver step within the approach radius
\* is near a turn, with direction 'straight' and the continue-to-destination
\* instruction, iff the final step is within the destination radius.
C18_DestinationFallback ==
    \A n \in 1..Len(frames) :
        NoManeuverWithinApproach(frames[n].location) =>
            IF FinalStepWithinDestination(frames[n].location)
            THEN /\ frames[n].isNearTurn = TRUE
                 /\ frames[n].turnDirection = "straight"
                 /\ frames[n].turnInstruction = InstrToDestination
            ELSE frames[n].isNearTurn = FALSE

\* The index in the sampled sequence of the point frame n was built from
SampledIndex(n) == frames[n].timestamp + 1

\* C19: a frame built from a sampled point with a successor has the
\* bearing from the point to the next sampled point, whether or not that
\* point gets a frame of its own; the frame built from the final sampled
\* point has heading 0; every heading is in [0, 360).
C19_HeadingToNextSampledPoint ==
    \A n \in 1..Len(frames) :
        /\ SampledIndex(n) \in 1..Len(points)
        /\ frames[n].location = points[SampledIndex(n)]
        /\ IF SampledIndex(n) < Len(points)
           THEN frames[n].heading =
                    calculateHeading(points[SampledIndex(n)], points[SampledIndex(n) + 1])
           ELSE frames[n].heading = 0
        /\ frames[n].heading >= 0
        /\ frames[n].heading < 360

\* A frame heading south or west whose next sampled point was dropped as a
\* duplicate, and a frame built from the final sampled point
C19_Witness ==
    /\ gpc = "returned"
    /\ \E n \in 1..Len(frames) :
          /\ SampledIndex(n) < Len(points)
          /\ frames[n].heading >= 180
          /\ \A m \in 1..Len(frames) : SampledIndex(m) # SampledIndex(n) + 1
    /\ \E n \in 1..Len(frames) : SampledIndex(n) = Len(points)

\* The rules of the claim in their order of priority: keyword, direction
TurnRules ==
    <<
       <<<<"u","-","t","u","r","n">>, "uturn">>,
       <<<<"t","u","r","n"," ","l","e","f","t">>, "left">>,
       <<<<"l","e","f","t"," ","o","n","t","o">>, "left">>,
       <<<<"t","u","r","n"," ","r","i","g","h","t">>, "right">>,
       <<<<"r","i","g","h","t"," ","o","n","t","o">>, "right">>,
       <<<<"c","o","n","t","i","n","u","e">>, "straight">>,
       <<<<"s","t","r","a","i","g","h","t">>, "straight">>,
       <<<<"l","e","f","t">>, "left">>,
       <<<<"r","i","g","h","t">>, "right">>
    >>

\* s, whatever the case of its letters, holds keyword k
HoldsKeyword(s, k) ==
    \E j \in 1..Len(s) :
        /\ j + Len(k) - 1 <= Len(s)
        /\ \A m \in 1..Len(k) :
              \/ s[j + m - 1] = k[m]
              \/ \E c \in 1..Len(LowerChars) :
                    LowerChars[c] = k[m] /\ UpperChars[c] = s[j + m - 1]

RulesPresent(s) == {r \in 1..Len(TurnRules) : HoldsKeyword(s, TurnRules[r][1])}

\* C20: extractTurnDirection returns the direction of the first rule, in
\* the order of TurnRules, whose keyword the lower-cased instruction holds,
\* and 'straight' when it holds none.
C20_FirstMatchWins ==
    tpc = "returned" =>
        tDirection =
            IF RulesPresent(tInstruction) = {} THEN "straight"
            ELSE TurnRules[CHOOSE r \in RulesPresent(tInstruction) :
                              \A q \in RulesPresent(tInstruction) : r <= q][2]

\* An instruction with an upper-case bare 'left' after 'turn right'
C20_Witness ==
    /\ tpc = "returned"
    /\ tDirection = "right"
    /\ {4, 8} \subseteq RulesPresent(tInstruction)
    /\ ~includes(tInstruction, <<"l","e","f","t">>)

\* The keywords of the claim
ManeuverKeywords ==
    {<<"t","u","r","n">>,
     <<"l","e","f","t">>,
     <<"r","i","g","h","t">>,
     <<"e","x","i","t">>,
     <<"r","a","m","p">>,
     <<"m","e","r","g","e">>,
     <<"f","o","r","k">>}

\* C21: isStepATurn(instruction) is TRUE iff the instruction, whatever the
\* case of its letters, holds one of turn, left, right, exit, ramp, merge,
\* fork.
C21_ManeuverIffKeyword ==
    kpc = "returned" =>
        (tIsTurn = TRUE <=> \E k \in ManeuverKeywords : HoldsKeyword(tInstruction, k))
            /\ tIsTurn \in BOOLEAN

\* An instruction whose only keyword has an upper-case letter
C21_Witness ==
    /\ kpc = "returned"
    /\ tIsTurn = TRUE
    /\ tInstruction = <<"a","t"," ","t","h","e"," ","F","o","r","k">>

\* No step of the route is a maneuver step
HoldsManeuverKeyword ==
    [t \in Instructions |-> \E w \in ManeuverKeywords : HoldsKeyword(t, w)]
NoManeuverSteps ==
    \A k \in 1..Len(route.steps) : ~HoldsManeuverKeyword[route.steps[k].instruction]

\* The length of the whole path in cm, segment by segment
RECURSIVE LengthUpTo(_)
LengthUpTo(i) ==
    IF i <= 1 THEN 0
    ELSE LengthUpTo(i - 1) + DistanceCm[route.path[i - 1], route.path[i]]
TotalPathLength == LengthUpTo(PathLen)

\* C22: for a route with a path, no maneuver steps and a total path length
\* under 5 * baseInterval, the sampled points are the path's first and last
\* points; the frames are 2, or 1 when the two share a quantized key.
C22_ShortRouteEndpointsOnly ==
    (Sampled /\ PathLen > 0 /\ NoManeuverSteps
        /\ TotalPathLength < 5 * intervalMeters * 100) =>
        /\ points = <<route.path[1], route.path[PathLen]>>
        /\ Returned =>
              Len(frames) =
                  IF QuantizedKey(route.path[1]) = QuantizedKey(route.path[PathLen])
                  THEN 1 ELSE 2

\* A short path of three different points whose ends share a key
C22_Witness ==
    /\ Returned
    /\ PathLen = 3
    /\ NoManeuverSteps
    /\ route.steps # <<>>
    /\ TotalPathLength > 0
    /\ TotalPathLength < 5 * intervalMeters * 100
    /\ route.path[1] # route.path[3]
    /\ route.path[1] # route.path[2]
    /\ Len(frames) = 1

\* C23 as stated: a route with zero steps has zero sampled points and zero
\* frames, whatever its path.
C23_ZeroStepsZeroSamples ==
    (Sampled /\ Len(route.steps) = 0) =>
        /\ Len(points) = 0
        /\ Len(frames) = 0

\* C23 (amended): the sampled points are none exactly when the path is
\* empty, whatever the steps are; a route with zero steps and a path has
\* the path's first and last points among its samples and so has frames.
C23_NoSamplesIffEmptyPath ==
    Sampled =>
        /\ Len(points) = 0 <=> PathLen = 0
        /\ PathLen = 0 => Len(frames) = 0
        /\ (PathLen > 0 /\ Len(route.steps) = 0) =>
              /\ Len(points) >= 2
              /\ points[1] = route.path[1]
              /\ points[Len(points)] = route.path[PathLen]
              /\ Returned => Len(frames) >= 1

C23_Witness ==
    /\ Returned
    /\ Len(route.steps) = 0
    /\ PathLen = 2
    /\ Len(frames) = 2

\* initialize() has resolved at some point of the log so far
InitializedBefore(log) ==
    \E n \in 1..Len(log) :
        log[n].method = "initialize" /\ log[n].outcome = "resolved"

\* C28: a guarded method called before a successful initialize() fails
\* with 'not initialized' and calls no collaborator; after a successful
\* initialize() both services stay set and every guarded method proceeds.
C28_UninitializedThenReady ==
    [][/\ \A m \in {"getRoute", "generateStreetViewFrames",
                    "generateStreetViewFramesWithCache",
                    "checkStreetViewAvailability", "getPanoramaMetadata"} :
             (Len(callLog') = Len(callLog) + 1 /\ callLog'[Len(callLog')].method = m) =>
                 IF InitializedBefore(callLog)
                 THEN /\ callLog'[Len(callLog')].outcome = "proceeded"
                      /\ collaboratorCalls' = collaboratorCalls + 1
                 ELSE /\ callLog'[Len(callLog')].outcome = "notInitialized"
                      /\ collaboratorCalls' = collaboratorCalls
       /\ InitializedBefore(callLog) =>
             /\ directionsService' = "set"
             /\ streetViewService' = "set"
       /\ ~InitializedBefore(callLog') =>
             /\ directionsService' = "null"
             /\ streetViewService' = "null"]_vars

\* A call refused, initialize() refused for the script not being loaded,
\* then initialize() resolved
C28_Witness ==
    /\ Len(callLog) = 3
    /\ callLog[1].outcome = "notInitialized"
    /\ callLog[2].outcome = "notLoaded"
    /\ callLog[3] = [method |-> "initialize", outcome |-> "resolved"]
    /\ directionsService = "set"

\* C29: for every route with a non-empty path, the last frame returned by
\* generateStreetViewFrames has the quantized location key of the path's
\* last point, also when the route comes back to a location it has visited.
C29_LastFrameAtRouteEnd ==
    (Returned /\ PathLen > 0) =>
        /\ Len(frames) > 0
        /\ QuantizedKey(frames[Len(frames)].location) = QuantizedKey(route.path[PathLen])

\* C30: the sampled points never end with the final path coordinate twice
\* in a row: the final point is appended after the walk only when the walk
\* did not emit it as its last sample.
C30_FinalPointAppendedOnce ==
    (Sampled /\ Len(points) >= 2) =>
        ~(/\ points[Len(points)] = route.path[PathLen]
          /\ points[Len(points) - 1] = route.path[PathLen])

\* The direction of the first rule of TurnRules that an instruction holds
DirectionByRules ==
    [t \in Instructions |->
        IF RulesPresent(t) = {} THEN "straight"
        ELSE TurnRules[CHOOSE r \in RulesPresent(t) :
                          \A q \in RulesPresent(t) : r <= q][2]]

\* C35: a frame has a turn direction and a turn instruction iff isNearTurn
\* is true; the instruction is then that of a route step which is a
\* maneuver within the approach radius (30 m) of the frame's location, and
\* the direction is extractTurnDirection of that instruction.
C35_TurnContextIffNearTurn ==
    \A n \in 1..Len(frames) :
        IF frames[n].isNearTurn
        THEN /\ frames[n].turnDirection \in {"left", "right", "straight", "uturn"}
             /\ frames[n].turnInstruction \in Instructions
             /\ frames[n].turnDirection = DirectionByRules[frames[n].turnInstruction]
             /\ \E k \in 1..Len(route.steps) :
                   /\ route.steps[k].instruction = frames[n].turnInstruction
                   /\ HoldsManeuverKeyword[route.steps[k].instruction]
                   /\ DistanceCm[frames[n].location, route.steps[k].location] <= 3000
        ELSE /\ frames[n].turnDirection = "undefined"
             /\ frames[n].turnInstruction = "undefined"

\* A frame near a right turn that follows a step which is no maneuver, and
\* a frame away from every maneuver
C35_Witness ==
    /\ Returned
    /\ Len(route.steps) = 2
    /\ ~HoldsManeuverKeyword[route.steps[1].instruction]
    /\ \E n \in 1..Len(frames) :
          /\ frames[n].isNearTurn
          /\ frames[n].turnDirection = "right"
          /\ DistanceCm[frames[n].location, route.steps[1].location] <= 3000
    /\ \E n \in 1..Len(frames) : ~frames[n].isNearTurn

\* C36: for every instruction, when extractTurnDirection returns left,
\* right or uturn, isStepATurn returns true: an instruction that is no
\* maneuver is classified 'straight'.
C36_DirectionImpliesManeuver ==
    (tpc = "returned" /\ kpc = "returned") =>
        /\ tDirection \in {"left", "right", "uturn"} => tIsTurn = TRUE
        /\ tIsTurn = FALSE => tDirection = "straight"

\* 'Keep LEFT': a bare keyword in upper case, a maneuver to the left
C36_Witness ==
    /\ tpc = "returned" /\ kpc = "returned"
    /\ tInstruction = <<"K","e","e","p"," ","L","E","F","T">>
    /\ tDirection = "left"
    /\ tIsTurn = TRUE

\* ------------------------------------------------------------------------
\* Properties of generateStreetViewFramesWithCache (under SpecWithCache)
\* ------------------------------------------------------------------------
EmptyPath == Len(route.path) = 0

\* C24: for a route whose path is empty, generateStreetViewFrames returns no
\* frame and does not throw, and generateStreetViewFramesWithCache returns
\* the empty sequence, does not throw, fetches nothing and never reports
\* progress.
C24_EmptyPathNoFramesNoFetch ==
    EmptyPath =>
        /\ gpc = "returned" => Len(frames) = 0
        /\ wpc # "threw"
        /\ wpc = "returned" => Len(updatedFrames) = 0
        /\ \A u \in AllUrls : fetchCount[u] = 0
        /\ Len(progress) = 0

C24_Witness ==
    /\ EmptyPath
    /\ Len(route.steps) > 0
    /\ gpc = "returned"
    /\ wpc = "returned"

CachingSucceeded(k) == tasks[k].outcome \in {"hit", "stored"}

\* C26: generateStreetViewFramesWithCache never rejects, and it resolves
\* with the frames of generateStreetViewFrames in their order, with their
\* location, heading and timestamp; a frame whose image was cached has the
\* local handle as imageUrl and isCached true, any other frame keeps its
\* remote url and has isCached false.
C26_SameFramesHandleIffCached ==
    /\ wpc # "threw"
    /\ wpc = "returned" =>
          /\ Len(updatedFrames) = Len(frames)
          /\ \A k \in 1..Len(frames) :
                /\ updatedFrames[k].location = frames[k].location
                /\ updatedFrames[k].heading = frames[k].heading
                /\ updatedFrames[k].timestamp = frames[k].timestamp
                /\ IF CachingSucceeded(k)
                   THEN /\ updatedFrames[k].imageUrl = <<"blob", UrlOrder[k]>>
                        /\ updatedFrames[k].isCached = TRUE
                   ELSE /\ updatedFrames[k].imageUrl = frames[k].imageUrl
                        /\ updatedFrames[k].isCached = FALSE

C26_Witness ==
    /\ wpc = "returned"
    /\ Len(frames) = 3
    /\ CachingSucceeded(2)
    /\ ~CachingSucceeded(1)
    /\ ~CachingSucceeded(3)

AllFetchesFailed ==
    /\ wpc = "returned"
    /\ Len(frames) = 3
    /\ \A k \in 1..3 : tasks[k].outcome = "null"

\* ------------------------------------------------------------------------
\* Properties of the pipeline of handleGenerateVideo (under SpecApp)
\* ------------------------------------------------------------------------
RouteRefused == routeStatus \in {"ZERO_RESULTS", "REQUEST_DENIED"}

\* C27: the route is asked for at most once; when the routing provider has
\* answered with a status other than OK, it was asked once, the pipeline
\* has stopped (no point is sampled, no frame is built, cacheImages is not
\* called and nothing is fetched), and the user is shown the failure: the
\* alert 'Failed to get route' and the hook's error with the status.
C27_RoutingFailureStopsPipeline ==
    /\ routeCalls <= 1
    /\ RouteRefused =>
          /\ apc = "done"
          /\ routeCalls = 1
          /\ alerted = "Failed to get route"
          /\ hookError = <<"Failed to get route: ", routeStatus>>
          /\ gpc = "idle" /\ wpc = "idle" /\ cpc = "idle"
          /\ Len(points) = 0
          /\ Len(frames) = 0
          /\ Len(streetViewFrames) = 0
          /\ \A u \in AllUrls : fetchCount[u] = 0

C27_Witness ==
    /\ RouteRefused
    /\ routeStatus = "ZERO_RESULTS"
    /\ apc = "done"

\* ------------------------------------------------------------------------
\* Density of the samples on routes without maneuvers (under SpecDensity)
\* ------------------------------------------------------------------------
\* 5 * baseInterval in cm
StraightIntervalCm == 5 * intervalMeters * 100

CeilDiv(a, b) == (a + b - 1) \div b

RECURSIVE LongestSegmentUpTo(_)
LongestSegmentUpTo(i) ==
    IF i <= 1 THEN 0
    ELSE LET rest == LongestSegmentUpTo(i - 1)
             d == DistanceCm[route.path[i - 1], route.path[i]]
         IN  IF d > rest THEN d ELSE rest
LongestSegment == LongestSegmentUpTo(PathLen)

\* C25 as stated: without maneuver steps the number of sampled points lies
\* between floor(L / (5 * baseInterval)) and ceil(L / (5 * baseInterval)) + 1,
\* however the points of the path are spaced.
C25_DensityWhateverTheSpacing ==
    (Sampled /\ NoManeuverSteps) =>
        /\ Len(points) >= TotalPathLength \div StraightIntervalCm
        /\ Len(points) <= CeilDiv(TotalPathLength, StraightIntervalCm) + 1

\* C25 as amended: for a route with a path and without maneuver steps, the
\* sampled points are the first point, the final point and m points of the
\* walk between them, where m is at most L / (5 * baseInterval) and, with d
\* the longest segment of the path, L < m * (5 * baseInterval + d) +
\* 5 * baseInterval.
C25_DensityBoundedBySpacing ==
    (Sampled /\ NoManeuverSteps /\ PathLen > 0) =>
        /\ Len(points) >= 2
        /\ (Len(points) - 2) * StraightIntervalCm <= TotalPathLength
        /\ TotalPathLength <
              (Len(points) - 2) * (StraightIntervalCm + LongestSegment)
                  + StraightIntervalCm

\* Two points 556 m apart with a base interval of 20 m: three samples where
\* L / (5 * baseInterval) is 5.56
C25_Witness ==
    /\ Sampled /\ NoManeuverSteps
    /\ Len(route.steps) = 1
    /\ intervalMeters = 20
    /\ route.path = <<Loc(0, 0), Loc(100, 1)>>
    /\ Len(points) = 3

\* ------------------------------------------------------------------------
\* The samples as a selection of the path (under SpecDensity)
\* ------------------------------------------------------------------------
\* The samples from the n-th on are points of the path at indices that
\* start at i or later and never decrease
RECURSIVE SelectedFrom(_, _)
SelectedFrom(n, i) ==
    IF n > Len(points) THEN TRUE
    ELSE \E j \in i..PathLen :
            /\ points[n] = route.path[j]
            /\ SelectedFrom(n + 1, j)

\* C31: the sampled points are points of the path taken in non-decreasing
\* order of their path index, none of them a coordinate the path does not
\* have; every frame is at a point of the path and the frames are never
\* more than the points of the path.
C31_SamplesSelectedFromPath ==
    Sampled =>
        /\ SelectedFrom(1, 1)
        /\ \A n \in 1..Len(frames) :
              \E j \in 1..PathLen : frames[n].location = route.path[j]
        /\ Len(frames) <= PathLen

\* A path that comes back to its start, sampled near a maneuver at every
\* point and returned
C31_Witness ==
    /\ Returned
    /\ ~NoManeuverSteps
    /\ route.path = <<Loc(0, 0), Loc(5, 0), Loc(0, 0)>>
    /\ Len(points) = 4
    /\ Len(frames) = 2

\* ------------------------------------------------------------------------
\* The store after a batch of concurrent cacheImage calls (under SpecBatch)
\* ------------------------------------------------------------------------
\* The sizes of the stored entries, in MB; no entry counts 0
StoredMB ==
    store["u0"].size + store["u1"].size + store["u2"].size
        + store["u3"].size + store["u4"].size + store["u5"].size

\* Every cacheImage call that was started has completed
BatchCompleted ==
    /\ \E k \in DOMAIN tasks : tasks[k].pc = "done"
    /\ \A k \in DOMAIN tasks : tasks[k].pc \in {"idle", "done"}

\* A getAll or delete request of some cleanupCache of the call has failed
CleanupFailed == \E k \in DOMAIN tasks : tasks[k].cleanupFailed

ExpiryDeleteCompletes(u) == PendingExpiry(idb', u) < PendingExpiry(idb, u)

\* C33: the delete that getCachedImage issues for an expired entry without
\* awaiting it never removes an entry of its url that is within max-age:
\* once a caller has stored the image again, no pending expiry delete
\* removes it.
C33_ExpiryDeleteSparesFreshEntry ==
    [][\A u \in AllUrls :
          (FreshlyStored(u) /\ ExpiryDeleteCompletes(u)) =>
              store'[u] = store[u]]_vars

\* cacheImage call k returns a handle in this step
ReturnsHandle(k) ==
    /\ tasks[k].pc # "done"
    /\ tasks'[k].pc = "done"
    /\ tasks'[k].outcome \in {"hit", "stored"}

\* C34: when cacheImage(url) returns a handle, an entry for url is in the
\* store, unless that entry alone is larger than 80% of the budget: the
\* eviction does not remove the entry whose store triggered it.
C34_ReturnedHandleIsStored ==
    [][\A k \in DOMAIN tasks :
          ReturnsHandle(k) =>
              \/ store'[urls[k]].timestamp >= 0
              \/ tasks[k].entry.size * 10 > 500 * 8]_vars

\* ------------------------------------------------------------------------
\* Properties of the player (under SpecPlayer and SpecPlayback)
\* ------------------------------------------------------------------------
\* The value of the progress fraction lies in [0, 100]
ProgressInRange == playerProgress[2] > 0 /\ 0 <= playerProgress[1]
                   /\ playerProgress[1] <= 100 * playerProgress[2]

\* C37: with a non-empty frame list, after any sequence of timer ticks,
\* play/pause toggles, progress-bar clicks at any position, speed changes
\* and resets, currentFrame is in [0, frames.length - 1] and progress is
\* in [0, 100].
C37_PlaybackStateInRange ==
    playerFrames > 0 =>
        /\ currentFrame >= 0
        /\ currentFrame <= playerFrames - 1
        /\ ProgressInRange

\* A click on the right edge of the bar has been clamped to the last frame
\* of a list of several frames, and playback is running.
C37_Witness ==
    /\ playerFrames = 3
    /\ currentFrame = 2
    /\ playerProgress = <<200, 3>>
    /\ isPlaying
    /\ playbackSpeed = 25

PlaybackFinished ==
    /\ ~isPlaying
    /\ currentFrame = playerFrames - 1
    /\ playerProgress = <<100, 1>>

\* The states PlaybackInit starts from are those the controls reach with
\* playback running (checked under SpecPlayer).
PlayingStatesCovered ==
    (isPlaying /\ playerFrames > 0) =>
        /\ currentFrame \in 0..(playerFrames - 1)
        /\ totalFrames = playerFrames
        /\ playbackSpeed \in PlaybackSpeeds
        /\ \/ playerProgress = ProgressOf(currentFrame, playerFrames)
           \/ currentFrame = playerFrames - 1 /\ playerProgress = <<100, 1>>

\* C38: a player that is playing on a non-empty frame list and is left to
\* its timer eventually reaches isPlaying = false with currentFrame =
\* frames.length - 1 and progress = 100, and until then every tick moves
\* currentFrame on by exactly one (the tick that stops playback finds it
\* on the last frame and leaves it there).
C38_PlaybackTerminates ==
    /\ (isPlaying /\ playerFrames > 0) ~> PlaybackFinished
    /\ [][isPlaying =>
            \/ currentFrame' = currentFrame + 1 /\ isPlaying'
            \/ /\ currentFrame = playerFrames - 1
               /\ currentFrame' = currentFrame
               /\ PlaybackFinished']_vars

\* Playback of the longest list has run to its end at half speed.
C38_Witness ==
    /\ playerFrames = MaxFrames
    /\ PlaybackFinished
    /\ playbackSpeed = 50

\* ------------------------------------------------------------------------
\* Properties of the hook (under SpecHook)
\* ------------------------------------------------------------------------
ErrorSet == hookError # <<"none", "none">>

\* C39: once the hook's error is set, by a failed initialization or a
\* failed getRoute, it stays set, so that App renders the error screen
\* from then on, and no further route generation is started: no
\* handleGenerateVideo begins and directionsService.route is not called
\* again.
C39_ErrorIsSticky ==
    [][ErrorSet =>
          /\ ErrorSet'
          /\ apc = "idle" => apc' = "idle"
          /\ routeCalls' = routeCalls]_vars

\* A route request was refused, its handler has ended, and the App is back
\* at rest with the error set and the service loaded.
C39_Witness ==
    /\ hookError = <<"Failed to get route: ", "ZERO_RESULTS">>
    /\ routeCalls = 1
    /\ apc = "idle"
    /\ isLoaded

\* The initialization failed for want of the script, and the error is set.
C39_InitFailed ==
    /\ hookError = <<"Failed to load Google Maps script", "none">>
    /\ hpc = "mounted"

====
